---- MODULE Spec2Model ----
(***************************************************************************)
(* Layer 1 stream of node-subdata-2: the framing encoder (Stream.encode)   *)
(* and the incremental decoder (Stream.feed / Stream._handleNewData),      *)
(* together with a remote end that writes bytes and a transport that       *)
(* delivers them to the decoder in arbitrary chunks.                       *)
(***************************************************************************)
EXTENDS Integers, Sequences, FiniteSets, TLC

\* ------------------------------------------------------------------------
\* Bounds of the model
\* ------------------------------------------------------------------------
\* number of writes the remote end performs in one behaviour
MaxOps == 3
\* longest payload the round-trip specification draws exhaustively
MaxLen == 5
\* longest chunk the transport delivers, unless it delivers all that is pending
MaxChunk == 4
\* packet size at which _emitRead gives up; the program uses
\* Number.MAX_SAFE_INTEGER - 1000, a size that neither TLC nor a Buffer can hold, so the
\* model uses a ceiling that a packet of two reads can reach; the packets of the other
\* specifications stay below it
PacketSizeCeiling == 5000
\* largest input length the encoder specification draws exhaustively
MaxSmallSize == 1030
\* number of Shell.send calls in one behaviour of the layered specification
MaxSends == 1
\* number of 'end' signals of the socket in one behaviour
MaxEnds == 2
\* longest raw buffer the Packet specification draws exhaustively
MaxRawLen == 3
\* number of calls made of the ShellAlgorithm under observation
MaxAlgCalls == 2
\* number of calls of write, send and close in one behaviour
MaxCalls == 3
\* number of frames on the wire of the specification that follows feed step by step
MaxFrames == 3
\* number of times a listener or algorithm.decode throws in one behaviour
MaxThrows == 1
\* number of calls of encode on a Stream that is decoding
MaxEncodeCalls == 2
\* number of calls of the writing methods of a Stream in one behaviour
MaxStreamCalls == 3
\* number of calls of Shell.send that are outstanding together
MaxSenders == 3

\* ------------------------------------------------------------------------
\* ControlCharacters (src/src/stream/controlCharacters.ts)
\* ------------------------------------------------------------------------
KeepAlive == 0
ReadByte == 16
ReadBytes == 17
ReadKB == 18
ReadMB == 19
ReadGB == 20
ReadTB == 21
ReadPB == 22
EndOfPacket == 23
ReadReset == 24

ControlCharacters ==
    {KeepAlive, ReadByte, ReadBytes, ReadKB, ReadMB, ReadGB, ReadTB, ReadPB, EndOfPacket, ReadReset}

\* ------------------------------------------------------------------------
\* Size helpers (sizeHelpers)
\* ------------------------------------------------------------------------
bytes(size) == size

kb(size) == size * 1024

mb(size) == kb(size) * 1024

\* ------------------------------------------------------------------------
\* Buffer helpers
\* ------------------------------------------------------------------------
Min(a, b) == IF a < b THEN a ELSE b

\* Buffer.subarray(start, end): bytes start..end-1 (0-based), clamped to the buffer
Subarray(buf, start, end) == SubSeq(buf, Min(start, Len(buf)) + 1, Min(end, Len(buf)))

\* Buffer.subarray(start): everything from index start (0-based) on
SubarrayFrom(buf, start) == SubSeq(buf, Min(start, Len(buf)) + 1, Len(buf))

\* ------------------------------------------------------------------------
\* Stream._bestControlCharacter and Stream.encode
\* ------------------------------------------------------------------------
\* the `false` result of _bestControlCharacter
NoControlCharacter == [controlCharacter |-> -1, number |-> -1, remainder |-> -1]

\* as BestControlCharacter, but the count byte is not reduced by one
BestControlCharacter_CountNotReduced(size) ==
    IF size < 1 THEN NoControlCharacter
    ELSE IF size < 4 THEN [controlCharacter |-> ReadByte, number |-> -1, remainder |-> size - 1]
    ELSE IF size < kb(4) THEN
        [controlCharacter |-> ReadBytes,
         number |-> Min(255, size \div 4),
         remainder |-> IF (size \div 4) - 1 > 255 THEN size - 4 * 256 ELSE size % 4]
    ELSE IF size < mb(4) THEN
        [controlCharacter |-> ReadKB,
         number |-> Min(255, size \div kb(4)),
         remainder |-> IF (size \div kb(4)) - 1 > 255 THEN size - kb(256) ELSE size % kb(4)]
    ELSE
        [controlCharacter |-> ReadMB,
         number |-> Min(255, size \div mb(4)),
         remainder |-> IF (size \div mb(4)) - 1 > 255 THEN size - mb(256) ELSE size % mb(4)]

BestControlCharacter(size) ==
    IF size < 1 THEN NoControlCharacter
    ELSE IF size < 4 THEN [controlCharacter |-> ReadByte, number |-> -1, remainder |-> size - 1]
    ELSE IF size < kb(4) THEN
        [controlCharacter |-> ReadBytes,
         number |-> Min(255, (size \div 4) - 1),
         remainder |-> IF (size \div 4) - 1 > 255 THEN size - 4 * 256 ELSE size % 4]
    ELSE IF size < mb(4) THEN
        [controlCharacter |-> ReadKB,
         number |-> Min(255, (size \div kb(4)) - 1),
         remainder |-> IF (size \div kb(4)) - 1 > 255 THEN size - kb(256) ELSE size % kb(4)]
    ELSE
        [controlCharacter |-> ReadMB,
         number |-> Min(255, (size \div mb(4)) - 1),
         remainder |-> IF (size \div mb(4)) - 1 > 255 THEN size - mb(256) ELSE size % mb(4)]

\* as ChunkByteSize, but a ReadKB count is taken in units of 4 bytes
ChunkByteSize_KBAsBytes(controlCharacter, number) ==
    IF controlCharacter = ReadBytes THEN (number + 1) * 4
    ELSE IF controlCharacter = ReadKB THEN (number + 1) * 4
    ELSE IF controlCharacter = ReadMB THEN mb(number + 1) * 4
    ELSE 0

\* payload bytes carried by a sized chunk with the given count byte
ChunkByteSize(controlCharacter, number) ==
    IF controlCharacter = ReadBytes THEN (number + 1) * 4
    ELSE IF controlCharacter = ReadKB THEN kb(number + 1) * 4
    ELSE IF controlCharacter = ReadMB THEN mb(number + 1) * 4
    ELSE 0

\* the while loop of encode; results is the flattened output so far
RECURSIVE EncodeLoop(_, _, _)
EncodeLoop(input, remaining, results) ==
    IF remaining > 0 THEN
        LET size == Len(input)
            data == BestControlCharacter(remaining)
        IN  IF data.controlCharacter = ReadByte THEN
                EncodeLoop(input, remaining - 1,
                           results \o <<data.controlCharacter>>
                                   \o Subarray(input, size - remaining, size - remaining + 1))
            ELSE
                LET byteSize == ChunkByteSize(data.controlCharacter, data.number)
                IN  EncodeLoop(input, remaining - byteSize,
                               results \o <<data.controlCharacter, data.number>>
                                       \o Subarray(input, size - remaining, size - remaining + byteSize))
    ELSE results

encode(input) == EncodeLoop(input, Len(input), <<>>)

\* ------------------------------------------------------------------------
\* Decoder state of a Stream (its fields) and the observations made of it
\* ------------------------------------------------------------------------
\* buffer, bufferSize, packet, packetSize : the fields of Stream
\* events   : the events delivered to listeners so far, in order
\* thrown   : the error the current feed call raised ("none" when it returned)
\* offset   : number of bytes of the logical stream already consumed
\* eventPos : for each event, the stream offset of the control byte that caused it
NewStream ==
    [buffer |-> <<>>, bufferSize |-> 0, packet |-> <<>>, packetSize |-> 0,
     events |-> <<>>, thrown |-> "none", offset |-> 0, eventPos |-> <<>>]

\* StreamEvents.ReadReset
ResetEvent == [type |-> "reset"]

\* StreamEvents.Read: (control character, number of that size, data); asNumber tells
\* that the data is delivered as a number (ReadByte) and not as a Buffer
ReadEvent(controlCharacter, numberOfType, data, asNumber) ==
    [type |-> "read", controlCharacter |-> controlCharacter, number |-> numberOfType,
     data |-> data, asNumber |-> asNumber]

\* StreamEvents.Packet: (size, data)
PacketEvent(size, data) == [type |-> "packet", size |-> size, data |-> data]

\* SafeEventEmitter.emit: listeners run synchronously, in emission order
emit(s, event) ==
    [s EXCEPT !.events = Append(@, event), !.eventPos = Append(@, s.offset)]

\* as _readReset, but the packet read so far is kept
_readReset_KeepsPacket(s) ==
    emit([s EXCEPT !.buffer = <<>>, !.bufferSize = 0], ResetEvent)

_readReset(s) ==
    emit([s EXCEPT !.buffer = <<>>, !.bufferSize = 0, !.packet = <<>>, !.packetSize = 0],
         ResetEvent)

_emitRead(s, controlCharacter, nbytes, numberOfType, data) ==
    LET s1 == [s EXCEPT !.packet = @ \o data, !.packetSize = @ + nbytes]
    IN  IF s1.packetSize >= PacketSizeCeiling
        THEN [s1 EXCEPT !.packet = <<>>, !.packetSize = 0, !.thrown = "overflow"]
        ELSE IF controlCharacter = ReadByte
             THEN emit(s1, ReadEvent(ReadByte, 1, data, TRUE))
             ELSE emit(s1, ReadEvent(controlCharacter, numberOfType, data, FALSE))

\* as _emitPacket, but the packet is not cleared after the event
_emitPacket_KeepsPacket(s) == emit(s, PacketEvent(s.packetSize, s.packet))

\* _emitPacket up to the return of the listeners of the Packet event
PacketEmitted(s) == emit(s, PacketEvent(s.packetSize, s.packet))

\* _emitPacket from there on
PacketCleared(s) == [s EXCEPT !.packet = <<>>, !.packetSize = 0]

_emitPacket(s) == PacketCleared(PacketEmitted(s))

_shiftBuffer(s, count) ==
    [s EXCEPT !.buffer = SubarrayFrom(@, count), !.bufferSize = @ - count,
              !.offset = @ + count]

\* bytes of data announced by the head of the buffer (needs bufferSize >= 2 for sized reads)
ReadSize(s) ==
    IF s.buffer[1] = ReadByte THEN 1
    ELSE IF s.buffer[1] = ReadBytes THEN (s.buffer[2] + 1) * 4
    ELSE IF s.buffer[1] = ReadKB THEN kb(s.buffer[2] + 1) * 4
    ELSE mb(s.buffer[2] + 1) * 4

\* as ReadIncomplete, but a sized read only waits for its count byte
ReadIncomplete_HeaderOnly(s) == s.bufferSize < 2

\* the early `return`s of the read cases: the read at the head still lacks bytes
ReadIncomplete(s) ==
    IF s.buffer[1] = ReadByte THEN s.bufferSize < 2
    ELSE s.bufferSize < 2 \/ s.bufferSize < ReadSize(s) + 2

\* as IsControlCharacter, but every byte value is accepted
IsControlCharacter_AcceptsAll(char) == char \in 0..255

\* `char.toString() in ControlCharacters`
IsControlCharacter(char) == char \in ControlCharacters

RECURSIVE _handleNewData(_)

\* as feed, but the new data replaces the buffered bytes instead of following them
feed_ReplacesBuffer(s, data) ==
    _handleNewData([s EXCEPT !.buffer = data, !.bufferSize = Len(data)])

feed(s, data) ==
    _handleNewData([s EXCEPT !.buffer = @ \o data, !.bufferSize = @ + Len(data)])

\* as ReadResetCase, but the bytes after the reset are interpreted before the Reset
\* event is emitted
ReadResetCase_EmitsLate(s) ==
    LET postReset == SubarrayFrom(s.buffer, 1)
        cleared == [s EXCEPT !.buffer = <<>>, !.bufferSize = 0, !.packet = <<>>,
                             !.packetSize = 0, !.offset = @ + 1]
        r == feed(cleared, postReset)
    IN  [r EXCEPT !.events = Append(@, ResetEvent), !.eventPos = Append(@, s.offset)]

\* as ReadResetCase, but the bytes after the reset are not fed again
ReadResetCase_DropsRest(s) ==
    [_readReset(s) EXCEPT !.offset = @ + s.bufferSize]

\* case ControlCharacters.ReadReset
ReadResetCase(s) ==
    LET postReset == SubarrayFrom(s.buffer, 1)
        r == _readReset(s)
    IN  feed([r EXCEPT !.offset = @ + 1], postReset)

\* case ControlCharacters.ReadByte
ReadByteCase(s) ==
    LET r == _emitRead(s, ReadByte, 1, 1, <<s.buffer[2]>>)
    IN  IF r.thrown # "none" THEN r ELSE _shiftBuffer(r, 2)

\* as SizedReadCase, but only the control and count bytes are removed from the buffer
SizedReadCase_ShiftsHeaderOnly(s) ==
    LET size == ReadSize(s)
        r == _emitRead(s, s.buffer[1], size, s.buffer[2], Subarray(s.buffer, 2, size + 2))
    IN  IF r.thrown # "none" THEN r ELSE _shiftBuffer(r, 2)

\* as SizedReadCase, but the Read event carries the number of units and not the count byte
SizedReadCase_CountPlusOne(s) ==
    LET size == ReadSize(s)
        r == _emitRead(s, s.buffer[1], size, s.buffer[2] + 1,
                       Subarray(s.buffer, 2, size + 2))
    IN  IF r.thrown # "none" THEN r ELSE _shiftBuffer(r, size + 2)

\* cases ControlCharacters.ReadBytes, ReadKB, ReadMB
SizedReadCase(s) ==
    LET size == ReadSize(s)
        r == _emitRead(s, s.buffer[1], size, s.buffer[2], Subarray(s.buffer, 2, size + 2))
    IN  IF r.thrown # "none" THEN r ELSE _shiftBuffer(r, size + 2)

\* as UnimplementedCase, but the control byte is dropped when the error is raised
UnimplementedCase_DropsByte(s) == [_shiftBuffer(s, 1) EXCEPT !.thrown = "notImplemented"]

\* as UnimplementedCase, but the control byte is skipped and reading goes on
UnimplementedCase_ReadsOn(s) == _shiftBuffer(s, 1)

\* cases ControlCharacters.ReadGB, ReadTB, ReadPB
UnimplementedCase(s) == [s EXCEPT !.thrown = "notImplemented"]

\* as KeepAliveCase, but the keep-alive byte stays in the buffer
KeepAliveCase_NoShift(s) == s

\* as KeepAliveCase, but the byte after the keep-alive is dropped with it
KeepAliveCase_ShiftsTwo(s) == _shiftBuffer(s, 2)

\* case ControlCharacters.KeepAlive
KeepAliveCase(s) == _shiftBuffer(s, 1)

\* case ControlCharacters.EndOfPacket
EndOfPacketCase(s) == _shiftBuffer(_emitPacket(s), 1)

_handleNewData(s) ==
    IF s.bufferSize = 0 THEN s
    ELSE LET char == s.buffer[1] IN
        IF ~IsControlCharacter(char) THEN [s EXCEPT !.thrown = "unknown"]
        ELSE IF char \in {ReadByte, ReadBytes, ReadKB, ReadMB} /\ ReadIncomplete(s) THEN s
        ELSE LET r == CASE char = ReadReset -> ReadResetCase(s)
                        [] char = ReadByte -> ReadByteCase(s)
                        [] char \in {ReadBytes, ReadKB, ReadMB} -> SizedReadCase(s)
                        [] char \in {ReadGB, ReadTB, ReadPB} -> UnimplementedCase(s)
                        [] char = KeepAlive -> KeepAliveCase(s)
                        [] char = EndOfPacket -> EndOfPacketCase(s)
                        [] OTHER -> [s EXCEPT !.thrown = "unhandled"]
             IN  IF r.thrown # "none" THEN r
                 ELSE IF r.bufferSize > 0 THEN _handleNewData(r)
                 ELSE r

\* ------------------------------------------------------------------------
\* State
\* ------------------------------------------------------------------------
VARIABLES
    buffer,       \* Stream._buffer
    bufferSize,   \* Stream._bufferSize
    packet,       \* Stream._packet
    packetSize,   \* Stream._packetSize
    events,       \* events delivered to the listeners of the Stream, in order
    thrown,       \* outcome of the last feed call: "none" or the error it raised
    errors,       \* every error raised by a feed call so far, in order
    offset,       \* bytes of the logical stream consumed so far
    eventPos,     \* stream offset of the control byte behind each event
    fed,          \* the logical stream: every byte given to feed so far
    wire,         \* bytes written by the remote end and not yet delivered
    written,      \* payloads the remote end passed to write, in order
    resumed,      \* a feed call has completed a read it had been waiting for
    ops,          \* number of writes the remote end has performed
    encSize,      \* encode: `size`, the length of the input Buffer
    encRemaining, \* encode: `remaining`
    encResults,   \* encode: `results`, one entry per chunk pushed
    encReturned,  \* encode has flattened the results and returned
    sent,         \* payloads passed to Shell.send, in order
    encodeCalls,  \* arguments of the calls of algorithm.encode, in order
    decodeCalls,  \* arguments of the calls of algorithm.decode, in order
    socketWrites, \* Buffers written to the local socket, one entry per write
    emitLog,      \* every event emitted by the Stream, the Shell and the Client, in order
    endSignals,   \* number of 'end' events the socket has emitted
    clientSent,   \* Packets the remote end passed to DumbClient.send, in order
    pktOp,        \* the way a Packet is being made: new Packet(raw) or Packet.fromID(id, data)
    pktStage,     \* how far the Packet has come: "idle", "called", "built", "raw", "rebuilt"
    pktThrown,    \* outcome of making the Packet: "none" or the error raised
    pkt,          \* the Packet made (id, data), as a sequence of at most one entry
    pktRaw,       \* the Buffer returned by its toRaw(), as a sequence of at most one entry
    pktBack,      \* the Packet made from that Buffer, as a sequence of at most one entry
    pc,           \* where the decoder is: "idle", or the point inside feed it has reached
    stack,        \* what the calls in progress inside feed still have to do, innermost last
    algX,         \* the Buffer given to the ShellAlgorithm under observation
    algResults,   \* the calls of its encode and decode so far: function, argument, result
    pendingCalls, \* calls of write, send and close whose Promise is still pending, in order
    settled,      \* the Promises that have settled, in order: call, what the socket
                  \* reported, and how the Promise settled
    encoded,      \* the calls of Stream.encode on the decoding Stream: input and result
    best,         \* what _bestControlCharacter returned, as a sequence of at most one entry
    streamCalls,  \* the calls of write, endPacket, writePacket and readReset on the local
                  \* Stream, in order, each with the Buffers it wrote to the socket
    senders       \* the calls of Shell.send whose Promise is pending: payload and state

vars == <<buffer, bufferSize, packet, packetSize, events, thrown, errors, offset,
          eventPos, fed, wire, written, resumed, ops,
          encSize, encRemaining, encResults, encReturned,
          sent, encodeCalls, decodeCalls, socketWrites, emitLog, endSignals, clientSent,
          pktOp, pktStage, pktThrown, pkt, pktRaw, pktBack,
          pc, stack, algX, algResults, pendingCalls, settled,
          encoded, best, streamCalls, senders>>

\* the Stream object as the record the operators above work on
StreamState ==
    [buffer |-> buffer, bufferSize |-> bufferSize, packet |-> packet,
     packetSize |-> packetSize, events |-> events, thrown |-> "none",
     offset |-> offset, eventPos |-> eventPos]

\* payloads the remote end writes in Spec: control values appear as data
Payloads == {<<24>>, <<16, 23, 24, 255>>, <<17, 0, 24, 23, 18, 20, 16, 0, 255>>}

\* single bytes the remote end writes without encoding them: a keep-alive, an
\* unimplemented read size and a byte that is no control character
RawBytes == {KeepAlive, ReadGB, 255}

\* byte values of the payloads of the round-trip specification
PayloadBytes == {0, 23, 24, 255}

\* longer payloads of the round-trip specification, filled with a repeating pattern:
\* a ReadBytes chunk with a count above 0, a ReadBytes chunk with the largest count
\* followed by a second one, and a ReadKB chunk followed by smaller ones
PatternBytes == <<23, 0, 24, 255, 16>>

Pattern(n) == [i \in 1..n |-> PatternBytes[(i % 5) + 1]]

LongPayloads == {Pattern(13), Pattern(1029), Pattern(4101)}

RECURSIVE BoundedSeq(_, _)
BoundedSeq(S, n) ==
    IF n = 0 THEN {<<>>}
    ELSE LET shorter == BoundedSeq(S, n - 1)
         IN  shorter \cup {Append(q, x) : q \in {t \in shorter : Len(t) = n - 1}, x \in S}

encoderVars == <<encSize, encRemaining, encResults, encReturned>>

\* no call of encode is being observed
EncoderIdle ==
    /\ encSize = 0
    /\ encRemaining = 0
    /\ encResults = <<>>
    /\ encReturned = FALSE

layerVars == <<sent, encodeCalls, decodeCalls, socketWrites, emitLog, endSignals,
               clientSent>>

\* new Shell(algorithm, stream), new DumbClient(shell): nothing sent or emitted yet
LayersIdle ==
    /\ sent = <<>>
    /\ encodeCalls = <<>>
    /\ decodeCalls = <<>>
    /\ socketWrites = <<>>
    /\ emitLog = <<>>
    /\ endSignals = 0
    /\ clientSent = <<>>

packetVars == <<pktOp, pktStage, pktThrown, pkt, pktRaw, pktBack>>

\* no Packet is being made
PacketIdle ==
    /\ pktOp = [op |-> "none"]
    /\ pktStage = "idle"
    /\ pktThrown = "none"
    /\ pkt = <<>>
    /\ pktRaw = <<>>
    /\ pktBack = <<>>

stepVars == <<pc, stack>>

\* no feed call is in progress
StepsIdle ==
    /\ pc = "idle"
    /\ stack = <<>>

algVars == <<algX, algResults>>

\* no ShellAlgorithm is under observation
AlgIdle ==
    /\ algX = <<>>
    /\ algResults = <<>>

promiseVars == <<pendingCalls, settled>>

\* no call of write, send or close has been made
PromisesIdle ==
    /\ pendingCalls = <<>>
    /\ settled = <<>>

callVars == <<encoded, best, streamCalls, senders>>

\* no call of encode, _bestControlCharacter, a write method or Shell.send has been made
CallsIdle ==
    /\ encoded = <<>>
    /\ best = <<>>
    /\ streamCalls = <<>>
    /\ senders = <<>>

moreVars == <<stepVars, algVars, promiseVars, callVars>>

MoreIdle ==
    /\ StepsIdle
    /\ AlgIdle
    /\ PromisesIdle
    /\ CallsIdle

\* the parts of the state that the stream actions (remote writes, Feed) leave alone
restVars == <<encoderVars, layerVars, packetVars, moreVars>>

\* new Stream(): constructor, nothing written yet
Init ==
    /\ buffer = <<>>
    /\ bufferSize = 0
    /\ packet = <<>>
    /\ packetSize = 0
    /\ events = <<>>
    /\ thrown = "none"
    /\ errors = <<>>
    /\ offset = 0
    /\ eventPos = <<>>
    /\ fed = <<>>
    /\ wire = <<>>
    /\ written = <<>>
    /\ resumed = FALSE
    /\ ops = 0
    /\ EncoderIdle
    /\ LayersIdle
    /\ PacketIdle
    /\ MoreIdle

decoderVars == <<buffer, bufferSize, packet, packetSize, events, thrown, errors, offset,
                 eventPos, fed, resumed>>

\* remote Stream.write(data): the encoded data goes on the wire
write(data) ==
    /\ ops < MaxOps
    /\ wire' = wire \o encode(data)
    /\ written' = Append(written, data)
    /\ ops' = ops + 1
    /\ UNCHANGED <<decoderVars, restVars>>

\* remote Stream.endPacket()
endPacket ==
    /\ ops < MaxOps
    /\ wire' = wire \o <<EndOfPacket>>
    /\ ops' = ops + 1
    /\ UNCHANGED <<decoderVars, written, restVars>>

\* remote Stream.readReset()
readReset ==
    /\ ops < MaxOps
    /\ wire' = wire \o <<ReadReset>>
    /\ ops' = ops + 1
    /\ UNCHANGED <<decoderVars, written, restVars>>

\* the remote end writes one byte to the socket itself (keep-alives, hand-made
\* or damaged frames)
rawWrite(byte) ==
    /\ ops < MaxOps
    /\ wire' = wire \o <<byte>>
    /\ ops' = ops + 1
    /\ UNCHANGED <<decoderVars, written, restVars>>

\* the transport delivers the next n bytes as one chunk (up to MaxChunk bytes, or all
\* that is pending): Stream.feed(chunk); the part of the step that concerns the Stream
FeedStream ==
    \E n \in (1..Min(MaxChunk, Len(wire))) \cup ({Len(wire)} \ {0}) :
        LET chunk == SubSeq(wire, 1, n)
            r == feed(StreamState, chunk)
        IN  /\ buffer' = r.buffer
            /\ bufferSize' = r.bufferSize
            /\ packet' = r.packet
            /\ packetSize' = r.packetSize
            /\ events' = r.events
            /\ thrown' = r.thrown
            /\ errors' = IF r.thrown = "none" THEN errors ELSE Append(errors, r.thrown)
            /\ offset' = r.offset
            /\ eventPos' = r.eventPos
            /\ fed' = fed \o chunk
            /\ resumed' = (resumed \/ (bufferSize > 0 /\ thrown = "none"
                                        /\ Len(r.events) > Len(events)))
            /\ wire' = SubSeq(wire, n + 1, Len(wire))
            /\ UNCHANGED <<written, ops>>

\* Feed of a Stream that has no Shell on top of it
Feed ==
    /\ FeedStream
    /\ UNCHANGED restVars

Next ==
    \/ \E data \in Payloads : write(data)
    \/ endPacket
    \/ readReset
    \/ \E byte \in RawBytes : rawWrite(byte)
    \/ Feed

Spec == Init /\ [][Next]_vars

\* Round trip: the remote end has written encode(b) and the EndOfPacket byte for one
\* payload b to a fresh connection; only the transport acts from there on
InitRT ==
    \E b \in BoundedSeq(PayloadBytes, MaxLen) \cup LongPayloads :
        /\ buffer = <<>>
        /\ bufferSize = 0
        /\ packet = <<>>
        /\ packetSize = 0
        /\ events = <<>>
        /\ thrown = "none"
        /\ errors = <<>>
        /\ offset = 0
        /\ eventPos = <<>>
        /\ fed = <<>>
        /\ wire = encode(b) \o <<EndOfPacket>>
        /\ written = <<b>>
        /\ resumed = FALSE
        /\ ops = MaxOps
        /\ EncoderIdle
        /\ LayersIdle
        /\ PacketIdle
        /\ MoreIdle

NextRT == Feed

SpecRT == InitRT /\ [][NextRT]_vars

\* Damaged streams: frames that can be read, then one byte at a control position that
\* cannot (an unimplemented read size or a byte outside the control set), then bytes that
\* would be a count byte and data, a read, an EndOfPacket or a ReadReset
LeadingFrames ==
    {<<>>, <<ReadByte, ReadGB>>, <<ReadBytes, 0, ReadGB, ReadTB, ReadPB, 255>>,
     <<KeepAlive, EndOfPacket>>}

StopBytes == {ReadGB, ReadTB, ReadPB, 255}

TrailingBytes == {<<>>, <<0, 1, 2, 3, 4>>, <<ReadByte, 7, EndOfPacket>>, <<ReadReset>>}

\* the remote end has put a damaged stream on the wire of a fresh connection; only the
\* transport acts from there on
InitDamaged ==
    \E lead \in LeadingFrames, stop \in StopBytes, trail \in TrailingBytes :
        /\ buffer = <<>>
        /\ bufferSize = 0
        /\ packet = <<>>
        /\ packetSize = 0
        /\ events = <<>>
        /\ thrown = "none"
        /\ errors = <<>>
        /\ offset = 0
        /\ eventPos = <<>>
        /\ fed = <<>>
        /\ wire = lead \o <<stop>> \o trail
        /\ written = <<>>
        /\ resumed = FALSE
        /\ ops = MaxOps
        /\ EncoderIdle
        /\ LayersIdle
        /\ PacketIdle
        /\ MoreIdle

NextDamaged == Feed

SpecDamaged == InitDamaged /\ [][NextDamaged]_vars

\* ------------------------------------------------------------------------
\* Stream.encode, one iteration of its loop at a time
\* ------------------------------------------------------------------------
\* The input Buffer is known by its length; a chunk holds the bounds of the view
\* input.subarray(from, to) that was pushed with its control character and count byte.
streamVars == <<decoderVars, wire, written, ops>>

\* a fresh Stream that nobody writes to
StreamIdle ==
    /\ buffer = <<>>
    /\ bufferSize = 0
    /\ packet = <<>>
    /\ packetSize = 0
    /\ events = <<>>
    /\ thrown = "none"
    /\ errors = <<>>
    /\ offset = 0
    /\ eventPos = <<>>
    /\ fed = <<>>
    /\ wire = <<>>
    /\ written = <<>>
    /\ resumed = FALSE
    /\ ops = 0

\* input lengths beyond MaxSmallSize: around the first ReadKB and ReadMB sizes, around
\* the largest ReadKB and ReadMB chunks, and the largest length the model can hold
LargeSizes ==
    {4095, 4096, 4097, 8191, 8192, kb(4) * 256 - 1, kb(4) * 256, kb(4) * 256 + 5,
     mb(4) - 1, mb(4), mb(4) + 4101, mb(4) * 2 - 1, mb(4) * 256 - 1, mb(4) * 256,
     mb(4) * 256 + kb(4) * 3 + 9, 2147483647}

EncodeSizes == (0..MaxSmallSize) \cup LargeSizes

\* as ReadByteChunk, but every byte that is left goes into the chunk
ReadByteChunk_TakesAll(size, remaining) ==
    [controlCharacter |-> ReadByte, number |-> -1,
     from |-> Min(size - remaining, size), to |-> size]

\* results.push([controlCharacter, input.subarray(size - remaining, size - remaining + 1)])
ReadByteChunk(size, remaining) ==
    [controlCharacter |-> ReadByte, number |-> -1,
     from |-> Min(size - remaining, size), to |-> Min(size - remaining + 1, size)]

\* results.push([controlCharacter, number,
\*               input.subarray(size - remaining, size - remaining + byteSize)])
SizedChunk(size, remaining, controlCharacter, number, byteSize) ==
    [controlCharacter |-> controlCharacter, number |-> number,
     from |-> Min(size - remaining, size), to |-> Min(size - remaining + byteSize, size)]

\* Stream.encode(input) has been called with an input of some length and is about to
\* enter its loop
InitEncode ==
    \E n \in EncodeSizes :
        /\ StreamIdle
        /\ encSize = n
        /\ encRemaining = n
        /\ encResults = <<>>
        /\ encReturned = FALSE
        /\ LayersIdle
        /\ PacketIdle
        /\ MoreIdle

\* one iteration of the while loop of encode
encodeStep ==
    /\ ~encReturned
    /\ encRemaining > 0
    /\ LET data == BestControlCharacter(encRemaining)
       IN  IF data.controlCharacter = ReadByte THEN
               /\ encResults' = Append(encResults, ReadByteChunk(encSize, encRemaining))
               /\ encRemaining' = encRemaining - 1
           ELSE
               LET byteSize == ChunkByteSize(data.controlCharacter, data.number)
               IN  /\ encResults' = Append(encResults,
                                           SizedChunk(encSize, encRemaining,
                                                      data.controlCharacter, data.number,
                                                      byteSize))
                   /\ encRemaining' = encRemaining - byteSize
    /\ UNCHANGED <<encSize, encReturned, streamVars, layerVars, packetVars, moreVars>>

\* the loop has ended: the results are flattened into one Buffer and returned
encodeReturn ==
    /\ ~encReturned
    /\ ~(encRemaining > 0)
    /\ encReturned' = TRUE
    /\ UNCHANGED <<encSize, encRemaining, encResults, streamVars, layerVars, packetVars,
                   moreVars>>

NextEncode ==
    \/ encodeStep
    \/ encodeReturn

SpecEncode == InitEncode /\ [][NextEncode]_vars

\* encode is a synchronous loop: once called it runs on until it returns
SpecEncodeFair == InitEncode /\ [][NextEncode]_vars /\ WF_vars(NextEncode)

\* ------------------------------------------------------------------------
\* Packet
\* ------------------------------------------------------------------------
\* Number.NaN, the value parseInt returns when the string starts with no digit; the
\* model writes it as a value that no sequence of hexadecimal digits denotes
NaN == -1

RECURSIVE toHex(_)

\* as toHex, but a byte below 16 gives one digit only
toHex_NoLeadingZero(buf) ==
    IF buf = <<>> THEN <<>>
    ELSE (IF Head(buf) < 16 THEN <<Head(buf)>> ELSE <<Head(buf) \div 16, Head(buf) % 16>>)
         \o toHex(Tail(buf))

\* Buffer.toString("hex"): two hexadecimal digits for each byte, as their values
toHex(buf) ==
    IF buf = <<>> THEN <<>> ELSE <<Head(buf) \div 16, Head(buf) % 16>> \o toHex(Tail(buf))

RECURSIVE ParseDigits(_, _)
ParseDigits(digits, acc) ==
    IF digits = <<>> THEN acc ELSE ParseDigits(Tail(digits), acc * 16 + Head(digits))

\* parseInt(string, 16) of a string of hexadecimal digits
parseInt16(digits) == IF digits = <<>> THEN NaN ELSE ParseDigits(digits, 0)

\* as IdBytes, but the low byte comes first
IdBytes_LittleEndian(id) == <<id % 256, (id \div 256) % 256>>

\* Buffer.from([id >> 8, id & 0xff]) for a number id: each entry is stored as a byte
IdBytes(id) == <<(id \div 256) % 256, id % 256>>

\* as NewPacket, but the data is the whole raw buffer
NewPacket_DataFromStart(raw) ==
    [id |-> parseInt16(toHex(Subarray(raw, 0, 2))), data |-> SubarrayFrom(raw, 0)]

\* new Packet(raw)
NewPacket(raw) ==
    [id |-> parseInt16(toHex(Subarray(raw, 0, 2))), data |-> SubarrayFrom(raw, 2)]

\* Packet.toRaw(); NaN >> 8 and NaN & 0xff are 0
toRaw(p) == (IF p.id = NaN THEN <<0, 0>> ELSE IdBytes(p.id)) \o p.data

\* Packet.fromID(id, data)
fromID(id, data) == NewPacket(IdBytes(id) \o data)

\* ------------------------------------------------------------------------
\* Shell and DumbClient on top of a Stream
\* ------------------------------------------------------------------------
\* as RawShellAlgorithmEncode, but a byte is put in front of the data
RawShellAlgorithmEncode_AddsHeader(data) == <<0>> \o data

\* RawShellAlgorithm.encode
RawShellAlgorithmEncode(data) == data

\* RawShellAlgorithm.decode
RawShellAlgorithmDecode(data) == data

\* Emitter.emit of one of the three layers, as seen by an observer of all of them; the
\* listeners of the event run right after, inside the same call
Emit(l, layer, type, data) ==
    [l EXCEPT !.emitLog = Append(@, [layer |-> layer, type |-> type, data |-> data])]

\* DumbClient constructor: listener on ShellEvents.Packet
DumbClientOnPacket(l, data) == Emit(l, "client", "packet", NewPacket(data))

\* as DumbClientOnEnd, but the End event is emitted a second time
DumbClientOnEnd_EndTwice(l) ==
    Emit(Emit(Emit(l, "client", "close", <<>>), "client", "end", <<>>), "client", "end", <<>>)

\* DumbClient constructor: listener on ShellEvents.End
DumbClientOnEnd(l) == Emit(Emit(l, "client", "close", <<>>), "client", "end", <<>>)

\* Shell constructor: listener on StreamEvents.Packet
ShellOnPacket(l, data) ==
    LET decoded == RawShellAlgorithmDecode(data)
        called == [l EXCEPT !.decodeCalls = Append(@, data)]
    IN  DumbClientOnPacket(Emit(called, "shell", "packet", decoded), decoded)

\* Shell constructor: listener on StreamEvents.End
ShellOnEnd(l) ==
    DumbClientOnEnd(Emit(Emit(l, "shell", "close", <<>>), "shell", "end", <<>>))

\* Stream constructor: handler of the 'end' event of the socket
StreamOnSocketEnd(l) ==
    ShellOnEnd(Emit(Emit(l, "stream", "close", <<>>), "stream", "end", <<>>))

\* as StreamEmit, but the Shell also decodes and forwards the data of Read events
StreamEmit_ShellTakesReads(l, e) ==
    IF e.type \in {"packet", "read"} THEN ShellOnPacket(Emit(l, "stream", e.type, e.data), e.data)
    ELSE Emit(l, "stream", e.type, <<>>)

\* the Stream emits Read(data), Packet(data) or Reset(); the Shell listens to Packet
StreamEmit(l, e) ==
    IF e.type = "packet" THEN ShellOnPacket(Emit(l, "stream", "packet", e.data), e.data)
    ELSE IF e.type = "read" THEN Emit(l, "stream", "read", e.data)
    ELSE Emit(l, "stream", e.type, <<>>)

\* the events a feed call emits reach the listeners one by one, in order
RECURSIVE Deliver(_, _)
Deliver(l, evs) ==
    IF evs = <<>> THEN l ELSE Deliver(StreamEmit(l, Head(evs)), Tail(evs))

\* as writePacket, but the EndOfPacket byte goes out in a write of its own
writePacket_TwoWrites(writes, data) == Append(Append(writes, encode(data)), <<EndOfPacket>>)

\* Stream.writePacket(data), on the writes the socket has seen
writePacket(writes, data) == Append(writes, encode(data) \o <<EndOfPacket>>)

\* payloads the application sends through the Shell
SendPayloads == {<<>>, <<255, 255, 72, 23, 24>>}

\* payloads the remote end writes to a Shell
ReceivePayloads == {<<255, 23>>}

\* the remote end calls Stream.writePacket(data): its one write goes on the wire
remoteWritePacket(data) ==
    /\ ops < MaxOps
    /\ wire' = wire \o writePacket(<<>>, data)[1]
    /\ written' = Append(written, data)
    /\ ops' = ops + 1
    /\ UNCHANGED <<decoderVars, restVars>>

\* Shell.send(data)
send(data) ==
    /\ Len(sent) < MaxSends
    /\ sent' = Append(sent, data)
    /\ encodeCalls' = Append(encodeCalls, data)
    /\ socketWrites' = writePacket(socketWrites, RawShellAlgorithmEncode(data))
    /\ UNCHANGED <<decodeCalls, emitLog, endSignals, clientSent, streamVars, encoderVars,
                   packetVars, moreVars>>

\* the socket emits 'data': the Stream feeds the chunk, and the events of the feed reach
\* the Shell and the DumbClient
Receive ==
    /\ FeedStream
    /\ LET l == Deliver([emitLog |-> emitLog, decodeCalls |-> decodeCalls],
                        SubSeq(events', Len(events) + 1, Len(events')))
       IN  /\ emitLog' = l.emitLog
           /\ decodeCalls' = l.decodeCalls
    /\ UNCHANGED <<sent, encodeCalls, socketWrites, endSignals, clientSent, encoderVars,
                   packetVars, moreVars>>

\* the socket emits 'end'
socketEnd ==
    /\ endSignals < MaxEnds
    /\ endSignals' = endSignals + 1
    /\ LET l == StreamOnSocketEnd([emitLog |-> emitLog, decodeCalls |-> decodeCalls])
       IN  /\ emitLog' = l.emitLog
           /\ decodeCalls' = l.decodeCalls
    /\ UNCHANGED <<sent, encodeCalls, socketWrites, clientSent, streamVars, encoderVars,
                   packetVars, moreVars>>

NextLayers ==
    \/ \E data \in SendPayloads : send(data)
    \/ \E data \in ReceivePayloads : remoteWritePacket(data)
    \/ Receive
    \/ socketEnd

SpecLayers == Init /\ [][NextLayers]_vars

\* ------------------------------------------------------------------------
\* Two DumbClients, each on a Shell with the Raw algorithm, joined by a transport
\* ------------------------------------------------------------------------
\* Packets the remote application sends: made by Packet.fromID and by the constructor,
\* from raw buffers of every length the constructor accepts
SentPackets ==
    {fromID(0, <<>>), fromID(65535, <<23, 24, 0, 16, 17>>), NewPacket(<<1>>),
     NewPacket(<<>>)}

\* DumbClient.send(data) of the remote end: Shell.send(data.toRaw()), which is
\* Stream.writePacket(algorithm.encode(...)); the one write goes on the wire
DumbClientSend(p) ==
    /\ ops < MaxOps
    /\ clientSent' = Append(clientSent, p)
    /\ wire' = wire \o writePacket(<<>>, RawShellAlgorithmEncode(toRaw(p)))[1]
    /\ written' = Append(written, toRaw(p))
    /\ ops' = ops + 1
    /\ UNCHANGED <<decoderVars, sent, encodeCalls, decodeCalls, socketWrites, emitLog,
                   endSignals, encoderVars, packetVars, moreVars>>

NextEndToEnd ==
    \/ \E p \in SentPackets : DumbClientSend(p)
    \/ Receive

SpecEndToEnd == Init /\ [][NextEndToEnd]_vars

\* ------------------------------------------------------------------------
\* Stream.feed step by step, with the listeners of its events
\* ------------------------------------------------------------------------
\* A feed call runs _handleNewData once for every control sequence; when an event is
\* emitted the listeners run before the call goes on, and a listener that throws ends
\* the feed call where it stands. The Shell is the listener of the Packet event.
\*
\* what a call in progress still has to do when control comes back to it:
\*   readCase    the _shiftBuffer(count) after _emitRead
\*   packetCase  the rest of _emitPacket and the _shiftBuffer(1) after it
\*   resetCase   the feed(postReset) after _readReset
\*   afterReset  line 162 of the _handleNewData that ran the ReadReset case
\* (_handleNewData() of line 162 is the last thing its caller does and leaves nothing)
Frame(kind, count, postReset) == [kind |-> kind, count |-> count, postReset |-> postReset]

Front(stk) == SubSeq(stk, 1, Len(stk) - 1)

\* _handleNewData returns: to feed and its caller, or to the ReadReset case of the
\* _handleNewData that called feed, which goes on at line 162
Returned(s, stk) ==
    IF stk = <<>> \/ ~(s.bufferSize > 0) THEN [s |-> s, pc |-> "idle", stack |-> <<>>]
    ELSE [s |-> s, pc |-> "handle", stack |-> Front(stk)]

\* as AfterCase, but _handleNewData returns after one control sequence
AfterCase_NoLoop(s, stk) == Returned(s, stk)

\* line 162: if (this._bufferSize > 0) this._handleNewData();
AfterCase(s, stk) ==
    IF s.bufferSize > 0 THEN [s |-> s, pc |-> "handle", stack |-> stk]
    ELSE Returned(s, stk)

\* an error leaves feed: every call in progress is abandoned
Raised(s) == [s |-> s, pc |-> "idle", stack |-> <<>>]

\* an event has been emitted and its listeners run
Delivering(s, event, stk) == [s |-> s, pc |-> event, stack |-> stk]

\* one run of _handleNewData, up to the first event it emits
HandleStep(s, stk) ==
    IF s.bufferSize = 0 THEN Returned(s, stk)
    ELSE LET char == s.buffer[1] IN
        IF ~IsControlCharacter(char) THEN Raised([s EXCEPT !.thrown = "unknown"])
        ELSE IF char \in {ReadByte, ReadBytes, ReadKB, ReadMB} /\ ReadIncomplete(s)
        THEN Returned(s, stk)
        ELSE CASE char = ReadReset ->
                    Delivering([_readReset(s) EXCEPT !.offset = @ + 1], "reset",
                               Append(stk, Frame("resetCase", 0, SubarrayFrom(s.buffer, 1))))
               [] char = ReadByte ->
                    LET r == _emitRead(s, ReadByte, 1, 1, <<s.buffer[2]>>)
                    IN  IF r.thrown # "none" THEN Raised(r)
                        ELSE Delivering(r, "read", Append(stk, Frame("readCase", 2, <<>>)))
               [] char \in {ReadBytes, ReadKB, ReadMB} ->
                    LET size == ReadSize(s)
                        r == _emitRead(s, char, size, s.buffer[2],
                                       Subarray(s.buffer, 2, size + 2))
                    IN  IF r.thrown # "none" THEN Raised(r)
                        ELSE Delivering(r, "read",
                                        Append(stk, Frame("readCase", size + 2, <<>>)))
               [] char \in {ReadGB, ReadTB, ReadPB} -> Raised(UnimplementedCase(s))
               [] char = KeepAlive -> AfterCase(KeepAliveCase(s), stk)
               [] char = EndOfPacket ->
                    Delivering(PacketEmitted(s), "packet",
                               Append(stk, Frame("packetCase", 1, <<>>)))
               [] OTHER -> Raised([s EXCEPT !.thrown = "unhandled"])

\* the listeners of the event have returned: the call that emitted it goes on
ListenerReturned(s, stk) ==
    LET frame == stk[Len(stk)]
        rest == Front(stk)
    IN  CASE frame.kind = "readCase" -> AfterCase(_shiftBuffer(s, frame.count), rest)
          [] frame.kind = "packetCase" -> AfterCase(_shiftBuffer(PacketCleared(s), 1), rest)
          [] OTHER ->
               [s |-> [s EXCEPT !.buffer = @ \o frame.postReset,
                                !.bufferSize = @ + Len(frame.postReset)],
                pc |-> "handle",
                stack |-> Append(rest, Frame("afterReset", 0, <<>>))]

\* a listener of the event has thrown; the bytes that the ReadReset case had set aside
\* are gone with the call
ListenerThrew(s, stk, error) ==
    Raised([s EXCEPT !.thrown = error,
                     !.offset = @ + Len(stk[Len(stk)].postReset)])

\* frames a remote end puts on the wire: a ReadByte and a ReadBytes read, the end of a
\* packet, a reset, a keep-alive, and a byte that is no control character
StepFrames ==
    {<<ReadByte, 65>>, <<ReadBytes, 0, 23, 24, 0, 16>>, <<EndOfPacket>>, <<ReadReset>>,
     <<KeepAlive>>, <<255>>}

\* the frames of one or two bytes among them
ShortFrames == {f \in StepFrames : Len(f) <= 2}

RECURSIVE FrameStreams(_, _)
FrameStreams(frames, n) ==
    IF n = 0 THEN {<<>>}
    ELSE LET shorter == FrameStreams(frames, n - 1)
         IN  shorter \cup {q \o f : q \in shorter, f \in frames}

\* a fresh Stream with a Shell on it; the remote end has written one of the streams
StepsStartWith(streams) ==
    \E stream \in streams :
        /\ buffer = <<>>
        /\ bufferSize = 0
        /\ packet = <<>>
        /\ packetSize = 0
        /\ events = <<>>
        /\ thrown = "none"
        /\ errors = <<>>
        /\ offset = 0
        /\ eventPos = <<>>
        /\ fed = <<>>
        /\ wire = stream
        /\ written = <<>>
        /\ resumed = FALSE
        /\ ops = MaxOps
        /\ EncoderIdle
        /\ LayersIdle
        /\ PacketIdle
        /\ MoreIdle

InitSteps == StepsStartWith(FrameStreams(StepFrames, MaxFrames))

\* the fields of the Stream take the values of the record
SetStream(r) ==
    /\ buffer' = r.buffer
    /\ bufferSize' = r.bufferSize
    /\ packet' = r.packet
    /\ packetSize' = r.packetSize
    /\ events' = r.events
    /\ offset' = r.offset
    /\ eventPos' = r.eventPos
    /\ thrown' = r.thrown
    /\ errors' = IF r.thrown = "none" THEN errors ELSE Append(errors, r.thrown)

\* the decoder is at the point the record tells
SetStep(r) ==
    /\ SetStream(r.s)
    /\ pc' = r.pc
    /\ stack' = r.stack

stepRest == <<written, resumed, ops, sent, encodeCalls, socketWrites, endSignals, clientSent,
              encoderVars, packetVars, algVars, promiseVars, callVars>>

\* the socket emits 'data' with the next n bytes: feed(chunk) up to its call of
\* _handleNewData
callFeed ==
    /\ pc = "idle"
    /\ \E n \in (1..Min(MaxChunk, Len(wire))) \cup ({Len(wire)} \ {0}) :
        LET chunk == SubSeq(wire, 1, n)
        IN  /\ SetStream([StreamState EXCEPT !.buffer = @ \o chunk,
                                             !.bufferSize = @ + Len(chunk)])
            /\ fed' = fed \o chunk
            /\ wire' = SubSeq(wire, n + 1, Len(wire))
    /\ pc' = "handle"
    /\ stack' = <<>>
    /\ UNCHANGED <<decodeCalls, emitLog, stepRest>>

\* _handleNewData runs, up to the first event it emits
handleNewData ==
    /\ pc = "handle"
    /\ LET r == HandleStep(StreamState, stack)
           emitted == SubSeq(r.s.events, Len(events) + 1, Len(r.s.events))
       IN  /\ SetStep(r)
           /\ emitLog' = IF emitted = <<>> THEN emitLog
                         ELSE Emit([emitLog |-> emitLog], "stream", emitted[1].type,
                                   IF emitted[1].type = "reset" THEN <<>>
                                   ELSE emitted[1].data).emitLog
    /\ UNCHANGED <<fed, wire, decodeCalls, stepRest>>

\* the listeners of a Read or a Reset event return
listenerReturns ==
    /\ pc \in {"read", "reset"}
    /\ SetStep(ListenerReturned(StreamState, stack))
    /\ UNCHANGED <<fed, wire, decodeCalls, emitLog, stepRest>>

\* a listener of a Read or a Reset event throws
listenerThrows ==
    /\ pc \in {"read", "reset"}
    /\ Len(errors) < MaxThrows
    /\ SetStep(ListenerThrew(StreamState, stack, "listener"))
    /\ UNCHANGED <<fed, wire, decodeCalls, emitLog, stepRest>>

\* the listener of the Shell for the Packet event: algorithm.decode returns, the Shell
\* and the DumbClient emit their Packet events, and the listener returns
shellDecodes ==
    /\ pc = "packet"
    /\ LET l == ShellOnPacket([emitLog |-> emitLog, decodeCalls |-> decodeCalls], packet)
       IN  /\ emitLog' = l.emitLog
           /\ decodeCalls' = l.decodeCalls
    /\ SetStep(ListenerReturned(StreamState, stack))
    /\ UNCHANGED <<fed, wire, stepRest>>

\* the listener of the Shell for the Packet event: algorithm.decode throws
shellDecodeFails ==
    /\ pc = "packet"
    /\ Len(errors) < MaxThrows
    /\ decodeCalls' = Append(decodeCalls, packet)
    /\ SetStep(ListenerThrew(StreamState, stack, "decode"))
    /\ UNCHANGED <<fed, wire, emitLog, stepRest>>

NextSteps ==
    \/ callFeed
    \/ handleNewData
    \/ listenerReturns
    \/ listenerThrows
    \/ shellDecodes
    \/ shellDecodeFails

SpecSteps == InitSteps /\ [][NextSteps]_vars

\* feed is synchronous: once called it runs on, and a listener that has been called
\* returns or throws
SpecStepsFair ==
    /\ StepsStartWith(FrameStreams(ShortFrames, MaxFrames))
    /\ [][NextSteps]_vars
    /\ WF_vars(handleNewData)
    /\ WF_vars(listenerReturns \/ listenerThrows)
    /\ WF_vars(shellDecodes \/ shellDecodeFails)

\* ------------------------------------------------------------------------
\* The Promises of write, send and close
\* ------------------------------------------------------------------------
\* what the socket passes to the callback of write or end: no error, or an error
SocketReports == {"none", "EPIPE"}

Fulfilled == [state |-> "fulfilled", error |-> "none"]

Rejected(err) == [state |-> "rejected", error |-> err]

\* as writeTo, but the error that the socket reports is dropped
writeTo_DropsError(err) == Fulfilled

\* writeTo(stream, chunk): the Promise, once stream.write has called back with err
writeTo(err) == IF err # "none" THEN Rejected(err) ELSE Fulfilled

\* endStream(stream): the Promise, once stream.end has called back with err; the
\* callback is `resolve` itself
endStream(err) == Fulfilled

\* Stream.write, endPacket, writePacket and readReset return the Promise of writeTo
StreamWriteSettles(err) == writeTo(err)

\* Shell.send returns the Promise of Stream.writePacket
ShellSendSettles(err) == StreamWriteSettles(err)

\* DumbClient.send returns the Promise of Shell.send
DumbClientSendSettles(err) == ShellSendSettles(err)

\* Stream.close returns the Promise of endStream
StreamCloseSettles(err) == endStream(err)

\* Shell.close returns the Promise of Stream.close
ShellCloseSettles(err) == StreamCloseSettles(err)

\* DumbClient.close returns the Promise of Shell.close
DumbClientCloseSettles(err) == ShellCloseSettles(err)

StreamWriteCalls == {"Stream.write", "Stream.endPacket", "Stream.writePacket",
                     "Stream.readReset"}

WriteCalls == StreamWriteCalls \cup {"Shell.send", "DumbClient.send"}

CloseCalls == {"Stream.close", "Shell.close", "DumbClient.close"}

\* how the Promise of a call settles when the socket calls back with err
Settles(call, err) ==
    CASE call \in StreamWriteCalls -> StreamWriteSettles(err)
      [] call = "Shell.send" -> ShellSendSettles(err)
      [] call = "DumbClient.send" -> DumbClientSendSettles(err)
      [] call = "Stream.close" -> StreamCloseSettles(err)
      [] call = "Shell.close" -> ShellCloseSettles(err)
      [] OTHER -> DumbClientCloseSettles(err)

promiseRest == <<streamVars, encoderVars, layerVars, packetVars, stepVars, algVars,
                 callVars>>

\* the application calls a write or a send: socket.write is called, the Promise is pending
callWrite(call) ==
    /\ Len(pendingCalls) + Len(settled) < MaxCalls
    /\ pendingCalls' = Append(pendingCalls, call)
    /\ UNCHANGED <<settled, promiseRest>>

\* the application calls a close: socket.end is called, the Promise is pending
callClose(call) ==
    /\ Len(pendingCalls) + Len(settled) < MaxCalls
    /\ pendingCalls' = Append(pendingCalls, call)
    /\ UNCHANGED <<settled, promiseRest>>

\* the socket calls the callback of a pending write or end, with or without an error;
\* a callback that the socket never calls leaves its Promise pending
socketCallsBack(err) ==
    \E i \in 1..Len(pendingCalls) :
        /\ settled' = Append(settled, [call |-> pendingCalls[i], reported |-> err,
                                      outcome |-> Settles(pendingCalls[i], err)])
        /\ pendingCalls' = SubSeq(pendingCalls, 1, i - 1)
                              \o SubSeq(pendingCalls, i + 1, Len(pendingCalls))
        /\ UNCHANGED promiseRest

NextPromises ==
    \/ \E call \in WriteCalls : callWrite(call)
    \/ \E call \in CloseCalls : callClose(call)
    \/ \E err \in SocketReports : socketCallsBack(err)

SpecPromises == Init /\ [][NextPromises]_vars

\* ------------------------------------------------------------------------
\* The Raw algorithm on its own
\* ------------------------------------------------------------------------
\* a RawShellAlgorithm has been made and a Buffer chosen to call it with
InitAlgorithm ==
    \E x \in BoundedSeq(PayloadBytes, MaxLen) :
        /\ StreamIdle
        /\ EncoderIdle
        /\ LayersIdle
        /\ PacketIdle
        /\ StepsIdle
        /\ PromisesIdle
        /\ CallsIdle
        /\ algX = x
        /\ algResults = <<>>

\* the Buffers at hand: the one chosen and those the calls so far have returned
AlgArguments == {algX} \cup {algResults[i].result : i \in 1..Len(algResults)}

\* algorithm.encode(arg)
algEncode ==
    /\ Len(algResults) < MaxAlgCalls
    /\ \E arg \in AlgArguments :
        algResults' = Append(algResults, [fn |-> "encode", arg |-> arg,
                                          result |-> RawShellAlgorithmEncode(arg)])
    /\ UNCHANGED <<algX, streamVars, encoderVars, layerVars, packetVars, stepVars,
                   promiseVars, callVars>>

\* algorithm.decode(arg)
algDecode ==
    /\ Len(algResults) < MaxAlgCalls
    /\ \E arg \in AlgArguments :
        algResults' = Append(algResults, [fn |-> "decode", arg |-> arg,
                                          result |-> RawShellAlgorithmDecode(arg)])
    /\ UNCHANGED <<algX, streamVars, encoderVars, layerVars, packetVars, stepVars,
                   promiseVars, callVars>>

NextAlgorithm ==
    \/ algEncode
    \/ algDecode

SpecAlgorithm == InitAlgorithm /\ [][NextAlgorithm]_vars

\* ------------------------------------------------------------------------
\* Making a Packet, serialising it and making it again
\* ------------------------------------------------------------------------
\* byte values of the raw buffers
RawPacketBytes == {0, 1, 255}

\* payloads given to Packet.fromID
PacketPayloads == {<<>>, <<23, 0, 255>>}

\* identifiers that are tried with every payload; every identifier of 16 bits is tried
\* with the empty payload
CornerIds == {0, 1, 255, 256, 4660, 65535}

\* identifiers that do not fit in 16 bits, below and above the range
OutOfRangeIds == {-65536, -257, -1, 65536, 65537, 74565, 131071}

PacketCalls ==
    {[op |-> "new", raw |-> b] : b \in BoundedSeq(RawPacketBytes, MaxRawLen)}
    \cup {[op |-> "fromID", id |-> i, data |-> <<>>] : i \in 0..65535}
    \cup {[op |-> "fromID", id |-> i, data |-> d] :
             i \in CornerIds \cup OutOfRangeIds, d \in PacketPayloads}

\* new Packet(raw) or Packet.fromID(id, data) has been called
InitPacket ==
    \E call \in PacketCalls :
        /\ StreamIdle
        /\ EncoderIdle
        /\ LayersIdle
        /\ pktOp = call
        /\ pktStage = "called"
        /\ pktThrown = "none"
        /\ pkt = <<>>
        /\ pktRaw = <<>>
        /\ pktBack = <<>>
        /\ MoreIdle

\* the call returns the Packet
construct ==
    /\ pktStage = "called"
    /\ pkt' = <<IF pktOp.op = "new" THEN NewPacket(pktOp.raw)
                ELSE fromID(pktOp.id, pktOp.data)>>
    /\ pktStage' = "built"
    /\ UNCHANGED <<pktOp, pktThrown, pktRaw, pktBack, streamVars, encoderVars, layerVars,
                   moreVars>>

\* packet.toRaw()
serialise ==
    /\ pktStage = "built"
    /\ pktRaw' = <<toRaw(pkt[1])>>
    /\ pktStage' = "raw"
    /\ UNCHANGED <<pktOp, pktThrown, pkt, pktBack, streamVars, encoderVars, layerVars,
                   moreVars>>

\* new Packet(packet.toRaw())
reconstruct ==
    /\ pktStage = "raw"
    /\ pktBack' = <<NewPacket(pktRaw[1])>>
    /\ pktStage' = "rebuilt"
    /\ UNCHANGED <<pktOp, pktThrown, pkt, pktRaw, streamVars, encoderVars, layerVars,
                   moreVars>>

NextPacket ==
    \/ construct
    \/ serialise
    \/ reconstruct

SpecPacket == InitPacket /\ [][NextPacket]_vars

\* ------------------------------------------------------------------------
\* Stream.encode called on a Stream that is decoding
\* ------------------------------------------------------------------------
\* as StreamEncode, but the bytes waiting in the accumulation buffer are encoded with
\* the input and taken out of the buffer
StreamEncode_TakesBuffer(s, input) ==
    [stream |-> [s EXCEPT !.buffer = <<>>, !.bufferSize = 0],
     result |-> encode(s.buffer \o input)]

\* Stream.encode(input) as a method of the Stream s: the Stream after the call and the
\* Buffer returned; the method reads `input` and calls _bestControlCharacter, which
\* reads its argument only
StreamEncode(s, input) == [stream |-> s, result |-> encode(input)]

\* what the remote end has put on the wire of a fresh connection: a packet of three
\* reads; a reset, a read whose data are control values, a keep-alive and the end of
\* the packet
PureStreams ==
    {encode(<<1, 2, 3, 4, 5>>) \o encode(<<7>>) \o <<EndOfPacket>>,
     <<ReadReset, ReadBytes, 0, 23, 24, 0, 16, KeepAlive, EndOfPacket>>}

\* Buffers the application encodes
EncodeInputs == {<<>>, <<23>>, <<16, 0, 24, 23, 255>>}

InitPure ==
    \E stream \in PureStreams :
        /\ buffer = <<>>
        /\ bufferSize = 0
        /\ packet = <<>>
        /\ packetSize = 0
        /\ events = <<>>
        /\ thrown = "none"
        /\ errors = <<>>
        /\ offset = 0
        /\ eventPos = <<>>
        /\ fed = <<>>
        /\ wire = stream
        /\ written = <<>>
        /\ resumed = FALSE
        /\ ops = MaxOps
        /\ EncoderIdle
        /\ LayersIdle
        /\ PacketIdle
        /\ MoreIdle

\* the application calls encode(input) on the Stream, between two feed calls
callEncode(input) ==
    /\ Len(encoded) < MaxEncodeCalls
    /\ LET r == StreamEncode(StreamState, input)
       IN  /\ buffer' = r.stream.buffer
           /\ bufferSize' = r.stream.bufferSize
           /\ packet' = r.stream.packet
           /\ packetSize' = r.stream.packetSize
           /\ events' = r.stream.events
           /\ offset' = r.stream.offset
           /\ eventPos' = r.stream.eventPos
           /\ encoded' = Append(encoded, [input |-> input, result |-> r.result,
                                          bufferSize |-> bufferSize,
                                          packetSize |-> packetSize])
    /\ UNCHANGED <<thrown, errors, fed, resumed, wire, written, ops, best, streamCalls,
                   senders, encoderVars, layerVars, packetVars, stepVars, algVars,
                   promiseVars>>

NextPure ==
    \/ \E input \in EncodeInputs : callEncode(input)
    \/ Feed

SpecPure == InitPure /\ [][NextPure]_vars

\* ------------------------------------------------------------------------
\* The writing methods of the Stream, called by the application; the peer decodes
\* ------------------------------------------------------------------------
\* Stream.write(data), on the writes the socket has seen
writeOn(writes, data) == Append(writes, encode(data))

\* Stream.endPacket(), on the writes the socket has seen
endPacketOn(writes) == Append(writes, <<EndOfPacket>>)

\* Stream.readReset(), on the writes the socket has seen
readResetOn(writes) == Append(writes, <<ReadReset>>)

\* payloads the application passes to write and writePacket: control values as data
CallPayloads == {<<24>>, <<23, 65>>}

\* the bytes of a list of Buffers, in order
RECURSIVE Concat(_)
Concat(buffers) ==
    IF buffers = <<>> THEN <<>> ELSE Head(buffers) \o Concat(Tail(buffers))

\* a call of a writing method: the Buffers it passes to writeTo go to the socket, one
\* write each, and reach the wire in that order
streamCall(op, data, made) ==
    /\ Len(streamCalls) < MaxStreamCalls
    /\ streamCalls' = Append(streamCalls, [op |-> op, data |-> data, writes |-> made])
    /\ wire' = wire \o Concat(made)
    /\ UNCHANGED <<decoderVars, written, ops, encoded, best, senders, encoderVars,
                   layerVars, packetVars, stepVars, algVars, promiseVars>>

callStreamWrite(data) == streamCall("write", data, writeOn(<<>>, data))

callEndPacket == streamCall("endPacket", <<>>, endPacketOn(<<>>))

callWritePacket(data) == streamCall("writePacket", data, writePacket(<<>>, data))

callReadReset == streamCall("readReset", <<>>, readResetOn(<<>>))

NextCalls ==
    \/ \E data \in CallPayloads : callStreamWrite(data)
    \/ callEndPacket
    \/ \E data \in CallPayloads : callWritePacket(data)
    \/ callReadReset
    \/ Feed

SpecCalls == Init /\ [][NextCalls]_vars

\* ------------------------------------------------------------------------
\* Several calls of Shell.send outstanding on one connection; the peer decodes
\* ------------------------------------------------------------------------
\* Shell.send(data): the call runs without interruption through algorithm.encode,
\* Stream.writePacket and writeTo up to socket.write, and returns the pending Promise.
\* The socket keeps the Buffers in the order of the write calls. `todo` holds the Buffers
\* that the call has yet to write once the write before has been called back (none:
\* writePacket hands its one Buffer to the socket at once)
shellSend(data) ==
    /\ Len(senders) < MaxSenders
    /\ LET made == writePacket(<<>>, RawShellAlgorithmEncode(data))
       IN  /\ wire' = wire \o Head(made)
           /\ senders' = Append(senders, [data |-> data, todo |-> Tail(made),
                                          pending |-> TRUE])
    /\ UNCHANGED <<decoderVars, written, ops, encoded, best, streamCalls, encoderVars,
                   layerVars, packetVars, stepVars, algVars, promiseVars>>

\* the socket calls back the write of the i-th call: the call goes on, and with nothing
\* left to write its Promise is fulfilled
sendWriteCallback(i) ==
    /\ i \in 1..Len(senders)
    /\ senders[i].pending
    /\ IF senders[i].todo = <<>>
       THEN /\ senders' = [senders EXCEPT ![i].pending = FALSE]
            /\ wire' = wire
       ELSE /\ senders' = [senders EXCEPT ![i].todo = Tail(@)]
            /\ wire' = wire \o Head(senders[i].todo)
    /\ UNCHANGED <<decoderVars, written, ops, encoded, best, streamCalls, encoderVars,
                   layerVars, packetVars, stepVars, algVars, promiseVars>>

NextSends ==
    \/ \E data \in SendPayloads : shellSend(data)
    \/ \E i \in 1..MaxSenders : sendWriteCallback(i)
    \/ Feed

SpecSends == Init /\ [][NextSends]_vars

\* ------------------------------------------------------------------------
\* A packet that grows up to the ceiling of _emitRead
\* ------------------------------------------------------------------------
\* what the remote end has put on the wire of a fresh connection: the start of a packet
\* whose second read brings the packet size above the ceiling (4096 + 1024 bytes)
OverflowStream ==
    <<ReadKB, 0>> \o Pattern(4096) \o <<ReadBytes, 255>> \o Pattern(1024)

\* the remote end has one more write to make
InitOverflow ==
    /\ buffer = <<>>
    /\ bufferSize = 0
    /\ packet = <<>>
    /\ packetSize = 0
    /\ events = <<>>
    /\ thrown = "none"
    /\ errors = <<>>
    /\ offset = 0
    /\ eventPos = <<>>
    /\ fed = <<>>
    /\ wire = OverflowStream
    /\ written = <<>>
    /\ resumed = FALSE
    /\ ops = MaxOps - 1
    /\ EncoderIdle
    /\ LayersIdle
    /\ PacketIdle
    /\ MoreIdle

NextOverflow ==
    \/ endPacket
    \/ Feed

SpecOverflow == InitOverflow /\ [][NextOverflow]_vars

\* ------------------------------------------------------------------------
\* A DumbClient that receives packets of any length
\* ------------------------------------------------------------------------
\* payloads of the packets the remote end writes: empty (a bare EndOfPacket), one byte,
\* the two bytes of an id, an id and data
ShortPayloads == {<<>>, <<5>>, <<255, 255>>, <<0, 23, 24>>}

NextShort ==
    \/ \E data \in ShortPayloads : remoteWritePacket(data)
    \/ Receive

SpecShort == Init /\ [][NextShort]_vars

\* ------------------------------------------------------------------------
\* _bestControlCharacter, called on its own
\* ------------------------------------------------------------------------
\* _calculateControlCharacterRemainder of the Stream that writes to a socket; the size
\* function is passed as a function on the one argument it is called with
_calculateControlCharacterRemainder(controlCharacter, size, sizeFn) ==
    [controlCharacter |-> controlCharacter,
     number |-> Min(255, (size \div sizeFn[4]) - 1),
     remainder |-> size - sizeFn[4] * (Min(255, (size \div sizeFn[4]) - 1) + 1)]

\* _bestControlCharacter of the Stream that writes to a socket
_bestControlCharacter(size) ==
    IF size < 1 THEN NoControlCharacter
    ELSE IF size < 4 THEN [controlCharacter |-> ReadByte, number |-> -1, remainder |-> size - 1]
    ELSE IF size < kb(4) THEN
        _calculateControlCharacterRemainder(ReadBytes, size, [s \in {4} |-> bytes(s)])
    ELSE IF size < mb(4) THEN
        _calculateControlCharacterRemainder(ReadKB, size, [s \in {4} |-> kb(s)])
    ELSE _calculateControlCharacterRemainder(ReadMB, size, [s \in {4} |-> mb(s)])

\* a call of _bestControlCharacter(size) of one of the two Stream classes
bestCall(class, size, result) ==
    /\ best = <<>>
    /\ best' = <<[class |-> class, size |-> size, result |-> result]>>
    /\ UNCHANGED <<streamVars, encoded, streamCalls, senders, encoderVars, layerVars,
                   packetVars, stepVars, algVars, promiseVars>>

\* stream._bestControlCharacter(size) of the Stream that is fed (src/src/stream)
feedStreamBest(size) == bestCall("fed", size, BestControlCharacter(size))

\* stream._bestControlCharacter(size) of the Stream that writes to a socket
socketStreamBest(size) == bestCall("socket", size, _bestControlCharacter(size))

NextBest ==
    \/ \E size \in EncodeSizes : feedStreamBest(size)
    \/ \E size \in EncodeSizes : socketStreamBest(size)

SpecBest == Init /\ [][NextBest]_vars

\* ------------------------------------------------------------------------
\* Properties
\* ------------------------------------------------------------------------
IsPacket(e) == e.type = "packet"

IsReset(e) == e.type = "reset"

IsRead(e) == e.type = "read"

PacketEvents == SelectSeq(events, IsPacket)

ResetEvents == SelectSeq(events, IsReset)

ReadEvents == SelectSeq(events, IsRead)

\* Control positions of a stream, from the wire format: the length of the control
\* sequence that starts at index p (1-based), 0 when it is not yet complete or when the
\* byte at p is not the start of a readable sequence
SequenceLength(stream, p) ==
    LET c == stream[p] IN
    IF c \in {KeepAlive, EndOfPacket, ReadReset} THEN 1
    ELSE IF c = ReadByte THEN (IF p + 1 <= Len(stream) THEN 2 ELSE 0)
    ELSE IF c \in {ReadBytes, ReadKB, ReadMB} THEN
        IF p + 1 > Len(stream) THEN 0
        ELSE LET unit == IF c = ReadBytes THEN 4 ELSE IF c = ReadKB THEN 4096 ELSE 4194304
                 total == 2 + (stream[p + 1] + 1) * unit
             IN  IF p + total - 1 <= Len(stream) THEN total ELSE 0
    ELSE 0

\* offsets (0-based) of the control bytes of the complete control sequences of a stream,
\* in order, up to the first sequence that is incomplete or cannot be read
RECURSIVE ControlOffsetsFrom(_, _)
ControlOffsetsFrom(stream, p) ==
    IF p > Len(stream) \/ SequenceLength(stream, p) = 0 THEN <<>>
    ELSE <<p - 1>> \o ControlOffsetsFrom(stream, p + SequenceLength(stream, p))

ControlOffsets(stream) == ControlOffsetsFrom(stream, 1)

\* offset at which the reading of a stream stops: its length, or the offset of the
\* first sequence that is incomplete or cannot be read
RECURSIVE StopOffsetFrom(_, _)
StopOffsetFrom(stream, p) ==
    IF p > Len(stream) \/ SequenceLength(stream, p) = 0 THEN p - 1
    ELSE StopOffsetFrom(stream, p + SequenceLength(stream, p))

StopOffset(stream) == StopOffsetFrom(stream, 1)

Range(f) == {f[i] : i \in DOMAIN f}

\* C1: round trip. Once encode(b) followed by EndOfPacket has been fed to a fresh
\* decoder (in any chunking), exactly one Packet event has been emitted, with payload b
\* and length Len(b); before that no Packet event; never a Reset event or an error.
C1_RoundTrip ==
    /\ errors = <<>>
    /\ ResetEvents = <<>>
    /\ wire # <<>> => PacketEvents = <<>>
    /\ wire = <<>> => PacketEvents = <<PacketEvent(Len(written[1]), written[1])>>

\* a payload that needs a ReadKB, a ReadBytes and a ReadByte chunk and holds
\* EndOfPacket and ReadReset values has been fed completely, in several chunks
C1_Witness ==
    /\ wire = <<>>
    /\ resumed
    /\ fed = encode(written[1]) \o <<EndOfPacket>>
    /\ Len(written[1]) = 4101
    /\ {EndOfPacket, ReadReset} \subseteq Range(written[1])
    /\ Len(ReadEvents) = 3
    /\ Len(PacketEvents) = 1

\* C2: chunk-boundary independence. However the stream fed so far was split into
\* chunks, the events emitted are exactly (same order, same arguments) those a fresh
\* decoder emits when it is given the whole stream in one feed call.
C2_ChunkIndependence == events = feed(NewStream, fed).events

\* a read was completed by a later chunk than the one that brought its control byte,
\* and a Packet event followed it
C2_Witness ==
    /\ resumed
    /\ errors = <<>>
    /\ \E i \in 1..Len(events) : IsRead(events[i]) /\ events[i].controlCharacter = ReadBytes
    /\ Len(events) > 0 /\ IsPacket(events[Len(events)])

\* control character whose interpretation emits the given event
ControlOf(e) ==
    IF IsReset(e) THEN ReadReset ELSE IF IsPacket(e) THEN EndOfPacket ELSE e.controlCharacter

\* C3: ordering. Every event belongs to a control sequence of the logical stream (the
\* byte at its position is the control character of the event), and the events appear
\* in the order of these positions: an event of a sequence that starts earlier in the
\* stream is emitted first, whatever the chunking.
C3_EventOrder ==
    /\ Len(eventPos) = Len(events)
    /\ \A i \in 1..Len(events) :
        /\ eventPos[i] < Len(fed)
        /\ fed[eventPos[i] + 1] = ControlOf(events[i])
    /\ \A i, j \in 1..Len(events) : i < j => eventPos[i] < eventPos[j]

\* a Read, a Reset and a Packet event have been emitted, in stream order, by a decoder
\* that had to wait for a later chunk
C3_Witness ==
    /\ resumed
    /\ Len(events) >= 3
    /\ \E i, j, k \in 1..Len(events) :
        i < j /\ j < k /\ IsRead(events[i]) /\ IsReset(events[j]) /\ IsPacket(events[k])

\* concatenation of the data of the Read events events[from..to]
RECURSIVE ReadData(_, _, _)
ReadData(evs, from, to) ==
    IF from > to THEN <<>>
    ELSE (IF IsRead(evs[from]) THEN evs[from].data ELSE <<>>) \o ReadData(evs, from + 1, to)

IsPrefix(p, q) == Len(p) <= Len(q) /\ SubSeq(q, 1, Len(p)) = p

\* C4: reset discards the packet in progress. The first Packet event after a Reset
\* event carries exactly the data of the Read events between the two (nothing read
\* before the reset; an empty packet of length 0 when no read lies between), the
\* accumulator is empty right after a Reset event, and events already emitted stay in
\* the log unchanged (not retracted) and are not emitted again for the same position.
C4_ResetDiscardsState ==
    /\ \A i, j \in 1..Len(events) :
        (/\ i < j
         /\ IsReset(events[i])
         /\ IsPacket(events[j])
         /\ \A k \in (i + 1)..(j - 1) : IsRead(events[k]))
        => /\ events[j].data = ReadData(events, i + 1, j - 1)
           /\ events[j].size = Len(events[j].data)
    /\ (Len(events) > 0 /\ IsReset(events[Len(events)])) => (packet = <<>> /\ packetSize = 0)
    /\ \A i, j \in 1..Len(events) : i # j => eventPos[i] # eventPos[j]

\* C4, as a property of behaviours: the state part always holds and the event log
\* only ever grows at its end
C4_ResetDiscards ==
    [](C4_ResetDiscardsState) /\ [][IsPrefix(events, events')]_vars

\* a read, then a reset, then an empty packet
C4_Witness ==
    \E i \in 1..Len(events) :
        /\ i + 2 <= Len(events)
        /\ IsRead(events[i])
        /\ IsReset(events[i + 1])
        /\ events[i + 2] = PacketEvent(0, <<>>)

\* offsets of the complete control sequences of the stream that start with char
OffsetsOf(stream, char) ==
    {o \in Range(ControlOffsets(stream)) : stream[o + 1] = char}

\* C5: every ReadReset byte at a control position of the stream produces exactly one
\* Reset event, and the control sequences that follow a reset are still interpreted:
\* each of them that emits (a read, an EndOfPacket, another reset) has its event.
\* In particular a stream of N ReadReset bytes yields N Reset events and nothing else.
C5_ResetKeepsFollowing ==
    LET offsets == Range(ControlOffsets(fed))
        resets == {o \in offsets : fed[o + 1] = ReadReset}
    IN  /\ {eventPos[i] : i \in {k \in 1..Len(events) : IsReset(events[k])}} = resets
        /\ Len(ResetEvents) = Cardinality(resets)
        /\ \A o \in offsets :
            (fed[o + 1] # KeepAlive /\ \E q \in resets : q < o)
            => \E i \in 1..Len(events) : eventPos[i] = o /\ ControlOf(events[i]) = fed[o + 1]
        /\ (\A i \in 1..Len(fed) : fed[i] = ReadReset)
            => events = [i \in 1..Len(fed) |-> ResetEvent]

\* two resets in a row, then a sequence that is still interpreted
C5_Witness ==
    /\ Len(fed) >= 3
    /\ fed[1] = ReadReset /\ fed[2] = ReadReset
    /\ Len(events) >= 3
    /\ IsReset(events[1]) /\ IsReset(events[2]) /\ ~IsReset(events[3])

\* the head of the accumulation buffer is not one of the ten control characters
UnknownHead == bufferSize > 0 /\ buffer[1] \notin ControlCharacters

\* C6: an unknown byte at the head of the accumulation buffer is fatal. The feed call
\* that met it raised the unknown-control-character error, every event emitted belongs
\* to a byte before it, and from then on every feed raises that error again and emits
\* nothing: no event for that byte or for any byte after it.
C6_UnknownIsFatal ==
    /\ [](UnknownHead => /\ thrown = "unknown"
                         /\ \A i \in 1..Len(events) : eventPos[i] < offset)
    /\ [][UnknownHead => /\ events' = events
                         /\ UnknownHead'
                         /\ offset' = offset
                         /\ (fed' # fed => (thrown' = "unknown"
                                            /\ errors' = Append(errors, "unknown")))]_vars

\* an unknown byte was met after some event, and a later feed raised again
C6_Witness ==
    /\ UnknownHead
    /\ Len(events) > 0
    /\ Len(errors) >= 2
    /\ bufferSize >= 2

\* the read sequence at the head of the byte sequence b still lacks bytes
LacksBytes(b) ==
    /\ Len(b) > 0
    /\ \/ b[1] = ReadByte /\ Len(b) < 2
       \/ /\ b[1] \in {ReadBytes, ReadKB, ReadMB}
          /\ \/ Len(b) < 2
             \/ Len(b) < 2 + ChunkByteSize(b[1], b[2])

\* the Read event of the complete read sequence at the head of the byte sequence b
HeadRead(b) ==
    IF b[1] = ReadByte THEN ReadEvent(ReadByte, 1, <<b[2]>>, TRUE)
    ELSE ReadEvent(b[1], b[2], SubSeq(b, 3, 2 + ChunkByteSize(b[1], b[2])), FALSE)

\* the bytes a Feed step hands to the decoder
FedChunk == SubSeq(fed', Len(fed) + 1, Len(fed'))

\* C7: waiting for more input. A feed call after which the read at the head of the
\* accumulation buffer still lacks bytes returns without error, emits nothing, keeps
\* every buffered byte and leaves the packet accumulator alone; the feed call that
\* brings the missing bytes emits the read next, once, for that same control byte.
C7_WaitsForInput ==
    [][fed' # fed =>
        /\ LacksBytes(buffer \o FedChunk) =>
              /\ thrown' = "none"
              /\ errors' = errors
              /\ events' = events
              /\ buffer' = buffer \o FedChunk
              /\ bufferSize' = bufferSize + Len(FedChunk)
              /\ packet' = packet
              /\ packetSize' = packetSize
              /\ offset' = offset
        /\ (LacksBytes(buffer) /\ ~LacksBytes(buffer \o FedChunk)) =>
              /\ Len(events') > Len(events)
              /\ events'[Len(events) + 1] = HeadRead(buffer \o FedChunk)
              /\ eventPos'[Len(events) + 1] = offset
              /\ Cardinality({i \in 1..Len(events') : eventPos'[i] = offset}) = 1
              /\ IsPrefix(events, events')]_vars

\* a ReadBytes read whose data arrived in a later chunk than its control byte
C7_Witness ==
    /\ resumed
    /\ errors = <<>>
    /\ Len(events) > 0
    /\ IsRead(events[Len(events)])
    /\ events[Len(events)].controlCharacter = ReadBytes
    /\ bufferSize = 0

\* index of the last Packet or Reset event before index j, 0 when there is none
RECURSIVE LastBoundary(_, _)
LastBoundary(evs, j) ==
    IF j <= 1 THEN 0
    ELSE IF IsPacket(evs[j - 1]) \/ IsReset(evs[j - 1]) THEN j - 1
    ELSE LastBoundary(evs, j - 1)

\* C8: packet assembly. Every Packet event carries the data of the Read events emitted
\* since the previous Packet or Reset event (or since creation), in order, its size is
\* the number of these bytes, and the accumulator holds exactly the data read since
\* the last Packet or Reset event: it is empty right after a Packet event.
C8_PacketAssembly ==
    /\ \A j \in 1..Len(events) :
        IsPacket(events[j]) =>
            /\ events[j].data = ReadData(events, LastBoundary(events, j) + 1, j - 1)
            /\ events[j].size = Len(events[j].data)
    /\ packet = ReadData(events, LastBoundary(events, Len(events) + 1) + 1, Len(events))
    /\ packetSize = Len(packet)
    /\ (Len(events) > 0 /\ IsPacket(events[Len(events)])) => (packet = <<>> /\ packetSize = 0)

\* two packets in one stream: the first assembled from two reads, the second empty
C8_Witness ==
    /\ Len(PacketEvents) = 2
    /\ Len(PacketEvents[1].data) = 9
    /\ PacketEvents[2] = PacketEvent(0, <<>>)
    /\ Len(ReadEvents) = 2

\* the stream without the KeepAlive bytes that stand at control positions
RECURSIVE WithoutKeepAlive(_, _)
WithoutKeepAlive(stream, p) ==
    IF p > Len(stream) THEN <<>>
    ELSE IF SequenceLength(stream, p) = 0 THEN SubSeq(stream, p, Len(stream))
    ELSE IF stream[p] = KeepAlive THEN WithoutKeepAlive(stream, p + 1)
    ELSE SubSeq(stream, p, p + SequenceLength(stream, p) - 1)
            \o WithoutKeepAlive(stream, p + SequenceLength(stream, p))

\* C9: KeepAlive is silent. The decoder is in the state (events, packet accumulator,
\* accumulation buffer) a fresh decoder reaches on the same stream with the KeepAlive
\* bytes at control positions left out: a KeepAlive consumes its one byte, emits
\* nothing and changes nothing else.
C9_KeepAliveSilent ==
    LET w == feed(NewStream, WithoutKeepAlive(fed, 1))
    IN  /\ events = w.events
        /\ packet = w.packet
        /\ packetSize = w.packetSize
        /\ buffer = w.buffer
        /\ bufferSize = w.bufferSize

\* a KeepAlive between a read and the end of its packet
C9_Witness ==
    /\ Len(events) >= 2
    /\ IsRead(events[1])
    /\ IsPacket(events[Len(events)])
    /\ events[Len(events)].size > 0
    /\ \E o \in OffsetsOf(fed, KeepAlive) : eventPos[1] < o /\ o < eventPos[Len(events)]

\* the data bytes of the stream that the Read event at index i of the log stands for
StreamDataOf(i) ==
    IF events[i].controlCharacter = ReadByte THEN <<fed[eventPos[i] + 2]>>
    ELSE SubSeq(fed, eventPos[i] + 3,
                eventPos[i] + 2 + ChunkByteSize(fed[eventPos[i] + 1], fed[eventPos[i] + 2]))

\* C10: data bytes are not control characters. Every event comes from a control
\* position of the stream, never from a byte inside the data of a read; the data of a
\* Read event is the data bytes of the stream, unchanged, whatever their values; and
\* an error is raised only for the byte at the control position where reading stops.
C10_DataNotParsed ==
    LET offsets == Range(ControlOffsets(fed))
    IN  /\ \A i \in 1..Len(events) : eventPos[i] \in offsets
        /\ \A i \in 1..Len(events) : IsRead(events[i]) => events[i].data = StreamDataOf(i)
        /\ Len(PacketEvents) = Cardinality({o \in offsets : fed[o + 1] = EndOfPacket})
        /\ Len(ResetEvents) = Cardinality({o \in offsets : fed[o + 1] = ReadReset})
        /\ errors # <<>> =>
            /\ offset = StopOffset(fed)
            /\ offset < Len(fed)
            /\ fed[offset + 1] \notin {KeepAlive, ReadByte, ReadBytes, ReadKB, ReadMB,
                                         EndOfPacket, ReadReset}

\* a ReadBytes read whose data holds the values of KeepAlive, ReadReset and EndOfPacket,
\* and a ReadByte read of a value outside the control set, in a packet without error
C10_Witness ==
    /\ errors = <<>>
    /\ ResetEvents = <<>>
    /\ Len(PacketEvents) = 1
    /\ \E i \in 1..Len(events) :
        /\ IsRead(events[i])
        /\ events[i].controlCharacter = ReadBytes
        /\ {KeepAlive, ReadReset, EndOfPacket} \subseteq Range(events[i].data)
    /\ \E i \in 1..Len(events) : IsRead(events[i]) /\ events[i].data = <<255>>
    /\ {KeepAlive, ReadReset, EndOfPacket, 255} \subseteq Range(PacketEvents[1].data)

\* the head of the accumulation buffer is one of the unimplemented read sizes
UnimplementedHead == bufferSize > 0 /\ buffer[1] \in {ReadGB, ReadTB, ReadPB}

\* C11: a ReadGB, ReadTB or ReadPB byte at a control position is fatal with an error of
\* its own. When reading of the stream stops at such a byte, the feed call raised the
\* not-implemented error, which is not the error raised for a byte outside the control
\* set; every event emitted belongs to a byte before it; and from then on every feed
\* raises that error again, emits nothing and consumes nothing: the bytes that follow
\* are never interpreted, neither as a count and data nor as anything else.
C11_NotImplementedIsFatal ==
    /\ [](LET stop == StopOffset(fed)
          IN  /\ (stop < Len(fed) /\ fed[stop + 1] \in {ReadGB, ReadTB, ReadPB}) =>
                    /\ thrown = "notImplemented"
                    /\ errors # <<>>
                    /\ \A k \in 1..Len(errors) : errors[k] = "notImplemented"
                    /\ offset = stop
                    /\ UnimplementedHead
                    /\ packet = ReadData(events, LastBoundary(events, Len(events) + 1) + 1,
                                         Len(events))
                    /\ \A i \in 1..Len(events) : eventPos[i] < stop
              /\ (stop < Len(fed) /\ fed[stop + 1] \notin ControlCharacters) =>
                    /\ thrown = "unknown"
                    /\ \A k \in 1..Len(errors) : errors[k] = "unknown")
    /\ [][UnimplementedHead => /\ events' = events
                               /\ UnimplementedHead'
                               /\ offset' = offset
                               /\ packet' = packet
                               /\ packetSize' = packetSize
                               /\ (fed' # fed =>
                                     (thrown' = "notImplemented"
                                      /\ errors' = Append(errors, "notImplemented")))]_vars

\* a ReadPB byte was met after a read, the bytes behind it look like a ReadByte read and
\* an EndOfPacket, and a later feed raised again
C11_Witness ==
    /\ UnimplementedHead
    /\ buffer[1] = ReadPB
    /\ bufferSize = 4
    /\ buffer[2] = ReadByte
    /\ buffer[4] = EndOfPacket
    /\ Len(errors) >= 2
    /\ Len(ReadEvents) = 1
    /\ PacketEvents = <<>>

\* bytes that a chunk of encode contributes to the returned Buffer: its control
\* character, its count byte unless it is a ReadByte chunk, and the bytes of its view
ChunkWireLength(c) ==
    (IF c.controlCharacter = ReadByte THEN 1 ELSE 2) + (c.to - c.from)

RECURSIVE FlatLength(_)
FlatLength(chunks) ==
    IF chunks = <<>> THEN 0 ELSE ChunkWireLength(Head(chunks)) + FlatLength(Tail(chunks))

\* the chunk that an iteration of the loop of encode has pushed
PushedChunk == encResults'[Len(encResults')]

\* C12: choice of the sized chunk. An iteration of encode that starts with at least 4
\* bytes remaining pushes a ReadBytes chunk (unit 4) below 4096 remaining bytes, a ReadKB
\* chunk (unit 4096) below 4194304 and a ReadMB chunk (unit 4194304) from there on; its
\* count byte is min(255, floor(remaining / unit) - 1), a value in 0..255; it carries the
\* (count + 1) * unit bytes of the input that follow the bytes already carried, and
\* that many bytes are taken off the remaining ones. The chunks carry the input in
\* order, without gap or overlap.
C12_SizedChunkChoice ==
    /\ [](/\ \A i \in 1..Len(encResults) :
             /\ encResults[i].from = (IF i = 1 THEN 0 ELSE encResults[i - 1].to)
             /\ encResults[i].from < encResults[i].to
          /\ encSize - encRemaining =
               (IF encResults = <<>> THEN 0 ELSE encResults[Len(encResults)].to))
    /\ [][(Len(encResults') = Len(encResults) + 1 /\ encRemaining >= 4) =>
            LET unit == IF encRemaining < 4096 THEN 4
                        ELSE IF encRemaining < 4194304 THEN 4096 ELSE 4194304
                char == IF encRemaining < 4096 THEN ReadBytes
                        ELSE IF encRemaining < 4194304 THEN ReadKB ELSE ReadMB
                count == Min(255, (encRemaining \div unit) - 1)
            IN  /\ count \in 0..255
                /\ PushedChunk.controlCharacter = char
                /\ PushedChunk.number = count
                /\ PushedChunk.from = encSize - encRemaining
                /\ PushedChunk.to = PushedChunk.from + (count + 1) * unit
                /\ PushedChunk.to <= encSize
                /\ encRemaining' = encRemaining - (count + 1) * unit
                /\ IsPrefix(encResults, encResults')]_vars

\* an input of 1 GiB + 12 KiB + 9 bytes was encoded as the largest ReadMB chunk, a
\* ReadKB chunk of 3 units, a ReadBytes chunk of 2 units and a ReadByte chunk
C12_Witness ==
    /\ encReturned
    /\ encSize = 1073754121
    /\ Len(encResults) = 4
    /\ encResults[1].controlCharacter = ReadMB /\ encResults[1].number = 255
    /\ encResults[2].controlCharacter = ReadKB /\ encResults[2].number = 2
    /\ encResults[3].controlCharacter = ReadBytes /\ encResults[3].number = 1
    /\ encResults[4].controlCharacter = ReadByte

\* bytes that a chunk contributes to the returned Buffer, for a given input
ChunkBytes(c, input) ==
    (IF c.controlCharacter = ReadByte THEN <<c.controlCharacter>>
     ELSE <<c.controlCharacter, c.number>>) \o SubSeq(input, c.from + 1, c.to)

\* results.flat().flatMap(...): the returned Buffer, for a given input
RECURSIVE Flat(_, _)
Flat(chunks, input) ==
    IF chunks = <<>> THEN <<>>
    ELSE ChunkBytes(Head(chunks), input) \o Flat(Tail(chunks), input)

\* C13: leftover bytes. An iteration of encode that starts with fewer than 4 bytes
\* remaining pushes a ReadByte chunk with exactly the next byte of the input and takes
\* one byte off the remaining ones, so 1, 2 or 3 leftover bytes are never put into one
\* chunk. An input of n <= 1027 bytes is therefore encoded as one ReadBytes chunk with
\* count floor(n / 4) - 1 (none when n < 4) followed by n mod 4 chunks (0x10, byte) of
\* two bytes each; a 13-byte input gives 16 bytes.
C13_LeftoverBytes ==
    /\ []((encReturned /\ encSize <= 1027) =>
            LET q == encSize \div 4
                r == encSize % 4
                input == Pattern(encSize)
                out == Flat(encResults, input)
            IN  /\ Len(encResults) = (IF q = 0 THEN 0 ELSE 1) + r
                /\ q > 0 => /\ encResults[1].controlCharacter = ReadBytes
                            /\ encResults[1].number = q - 1
                            /\ encResults[1].from = 0
                            /\ encResults[1].to = 4 * q
                /\ \A i \in 1..r :
                    LET c == encResults[(IF q = 0 THEN 0 ELSE 1) + i]
                    IN  /\ c.controlCharacter = ReadByte
                        /\ c.from = 4 * q + i - 1
                        /\ c.to = 4 * q + i
                /\ out = (IF q = 0 THEN <<>> ELSE <<ReadBytes, q - 1>> \o SubSeq(input, 1, 4 * q))
                          \o (IF r >= 1 THEN <<ReadByte, input[4 * q + 1]>> ELSE <<>>)
                          \o (IF r >= 2 THEN <<ReadByte, input[4 * q + 2]>> ELSE <<>>)
                          \o (IF r >= 3 THEN <<ReadByte, input[4 * q + 3]>> ELSE <<>>)
                /\ out = encode(input)
                /\ Len(out) = FlatLength(encResults)
                /\ encSize = 13 => Len(out) = 16)
    /\ [][(Len(encResults') = Len(encResults) + 1 /\ encRemaining < 4) =>
            /\ PushedChunk.controlCharacter = ReadByte
            /\ PushedChunk.from = encSize - encRemaining
            /\ PushedChunk.to = PushedChunk.from + 1
            /\ ChunkWireLength(PushedChunk) = 2
            /\ encRemaining' = encRemaining - 1]_vars

\* an input of 1027 bytes was encoded as the largest ReadBytes chunk and three ReadByte
\* chunks
C13_Witness ==
    /\ encReturned
    /\ encSize = 1027
    /\ Len(encResults) = 4
    /\ encResults[1].controlCharacter = ReadBytes /\ encResults[1].number = 255
    /\ \A i \in 2..4 : encResults[i].controlCharacter = ReadByte
    /\ FlatLength(encResults) = 1032

\* C14: one write per send. Every Shell.send(payload) calls algorithm.encode once, with
\* the whole payload, and writes to the socket once: the i-th write is the layer 1
\* encoding of the algorithm's output for the i-th payload, followed by one EndOfPacket
\* byte. Nothing else writes to the socket or calls algorithm.encode.
C14_SendIsOneWrite ==
    /\ [](/\ Len(socketWrites) = Len(sent)
          /\ Len(encodeCalls) = Len(sent)
          /\ \A i \in 1..Len(sent) :
              /\ encodeCalls[i] = sent[i]
              /\ socketWrites[i] =
                    encode(RawShellAlgorithmEncode(sent[i])) \o <<EndOfPacket>>)
    /\ [][/\ IsPrefix(sent, sent') /\ Len(sent') <= Len(sent) + 1
          /\ IsPrefix(socketWrites, socketWrites')
          /\ IsPrefix(encodeCalls, encodeCalls')
          /\ (sent' # sent) =>
               /\ Len(socketWrites') = Len(socketWrites) + 1
               /\ Len(encodeCalls') = Len(encodeCalls) + 1
          /\ (sent' = sent) =>
               /\ socketWrites' = socketWrites
               /\ encodeCalls' = encodeCalls]_vars

\* a payload that holds control values has been sent after a packet from the remote
\* end was received
C14_Witness ==
    /\ sent = <<<<255, 255, 72, 23, 24>>>>
    /\ socketWrites = <<<<ReadBytes, 0, 255, 255, 72, 23, ReadByte, 24, EndOfPacket>>>>
    /\ Len(decodeCalls) = 1

\* indices of the entries of the emit log of a layer and type
LogIndices(layer, type) ==
    {i \in 1..Len(emitLog) : emitLog[i].layer = layer /\ emitLog[i].type = type}

\* C15: one decode per packet. algorithm.decode is called once for each Packet event of
\* the Stream, in order, with the whole payload of that packet; the Packet event of the
\* Stream is followed at once by one Packet event of the Shell that carries the decoded
\* bytes, and the Shell emits no other Packet event. A Read event of the Stream is
\* followed by no event of the Shell, and a step without a new Packet event of the
\* Stream calls algorithm.decode not at all.
C15_DecodePerPacket ==
    /\ [](/\ Len(decodeCalls) = Len(PacketEvents)
          /\ \A i \in 1..Len(decodeCalls) : decodeCalls[i] = PacketEvents[i].data
          /\ Cardinality(LogIndices("shell", "packet")) = Len(PacketEvents)
          /\ Cardinality(LogIndices("stream", "packet")) = Len(PacketEvents)
          /\ Cardinality(LogIndices("stream", "read")) = Len(ReadEvents)
          /\ \A i \in LogIndices("stream", "packet") :
              /\ i < Len(emitLog)
              /\ emitLog[i + 1].layer = "shell"
              /\ emitLog[i + 1].type = "packet"
              /\ emitLog[i + 1].data = RawShellAlgorithmDecode(emitLog[i].data)
          /\ \A i \in LogIndices("shell", "packet") :
              /\ i > 1
              /\ emitLog[i - 1].layer = "stream"
              /\ emitLog[i - 1].type = "packet"
          /\ \A i \in LogIndices("stream", "read") :
              i < Len(emitLog) => emitLog[i + 1].layer = "stream")
    /\ [][/\ IsPrefix(decodeCalls, decodeCalls')
          /\ Len(decodeCalls') - Len(decodeCalls) = Len(PacketEvents') - Len(PacketEvents)]_vars

\* a packet that the Stream assembled from two reads has been decoded once, after a
\* step that brought a Read event only
C15_Witness ==
    /\ Len(ReadEvents) = 2
    /\ resumed
    /\ decodeCalls = <<<<255, 23>>>>
    /\ Cardinality(LogIndices("shell", "packet")) = 1
    /\ Len(emitLog) = 5
    /\ emitLog[1].type = "read" /\ emitLog[2].type = "read"

\* the Close and End events of the emit log, as pairs of layer and type, in order
IsTerminal(e) == e.type \in {"close", "end"}

LayerAndType(e) == <<e.layer, e.type>>

Terminals(log) ==
    LET t == SelectSeq(log, IsTerminal) IN [i \in 1..Len(t) |-> LayerAndType(t[i])]

\* the notifications of one 'end' signal
OneEnd ==
    << <<"stream", "close">>, <<"stream", "end">>, <<"shell", "close">>,
       <<"shell", "end">>, <<"client", "close">>, <<"client", "end">> >>

RECURSIVE Repeat(_, _)
Repeat(q, n) == IF n = 0 THEN <<>> ELSE q \o Repeat(q, n - 1)

\* C16: terminal notifications. For each 'end' signal of the socket the Stream, the
\* Shell and the Client each emit their deprecated Close event and their End event
\* exactly once, the Stream first, then the Shell, then the Client; the six events are
\* emitted within the step of the signal, one after the other, and no other step emits
\* a Close or End event on any layer.
C16_EndForwardedOnce ==
    /\ [](Terminals(emitLog) = Repeat(OneEnd, endSignals))
    /\ [][/\ IsPrefix(emitLog, emitLog')
          /\ (endSignals' = endSignals + 1) =>
               /\ Len(emitLog') = Len(emitLog) + 6
               /\ Terminals(SubSeq(emitLog', Len(emitLog) + 1, Len(emitLog'))) = OneEnd
          /\ (endSignals' = endSignals) => (Terminals(emitLog') = Terminals(emitLog))]_vars

\* two 'end' signals, with a packet delivered to the Client between them
C16_Witness ==
    /\ endSignals = 2
    /\ Len(emitLog) >= 15
    /\ emitLog[6].layer = "client" /\ emitLog[6].type = "end"
    /\ \E i \in 7..Len(emitLog) : emitLog[i].layer = "client" /\ emitLog[i].type = "packet"
    /\ emitLog[Len(emitLog)].layer = "client" /\ emitLog[Len(emitLog)].type = "end"

\* C17: envelope round trip. For every identifier in 0..65535 and every payload, the
\* empty one included, the Packet made from the bytes that Packet.fromID(id, p).toRaw()
\* returns has the identifier id and the payload p.
C17_EnvelopeRoundTrip ==
    (pktStage = "rebuilt" /\ pktOp.op = "fromID" /\ pktOp.id \in 0..65535) =>
        /\ Len(pktBack) = 1
        /\ pktBack[1].id = pktOp.id
        /\ pktBack[1].data = pktOp.data

\* the largest identifier with the empty payload has made the round trip
C17_Witness ==
    /\ pktStage = "rebuilt"
    /\ pktOp.op = "fromID"
    /\ pktOp.id = 65535
    /\ pktOp.data = <<>>
    /\ pktRaw = <<<<255, 255>>>>
    /\ pktBack = <<[id |-> 65535, data |-> <<>>]>>

\* C18: toRaw undoes the constructor. For every buffer b of at least 2 bytes, the
\* Packet made by new Packet(b) returns from toRaw() a buffer equal to b: so for the
\* buffers given to the constructor directly, and so for the buffers that toRaw returned
\* and a second Packet was made from.
C18_ToRawInvertsFromRaw ==
    /\ (pktStage \in {"raw", "rebuilt"} /\ pktOp.op = "new" /\ Len(pktOp.raw) >= 2) =>
          pktRaw = <<pktOp.raw>>
    /\ (pktStage = "rebuilt" /\ Len(pktRaw[1]) >= 2) =>
          toRaw(pktBack[1]) = pktRaw[1]

\* a raw buffer of three bytes has been parsed and serialised again
C18_Witness ==
    /\ pktStage = "raw"
    /\ pktOp.op = "new"
    /\ pktOp.raw = <<1, 255, 0>>
    /\ pkt = <<[id |-> 511, data |-> <<0>>]>>
    /\ pktRaw = <<<<1, 255, 0>>>>

\* C19: big-endian envelope. For every Packet with an identifier in 0..65535, toRaw()
\* is the two bytes id div 256 and id mod 256 followed by the payload; a Packet made
\* from raw bytes b (at least 2) has the identifier 256 * b[0] + b[1] and the payload
\* b[2..]; and Packet.fromID(id, p) has the identifier id and the payload p.
C19_BigEndian ==
    /\ (pktStage \in {"raw", "rebuilt"} /\ pkt[1].id \in 0..65535) =>
          pktRaw[1] = <<pkt[1].id \div 256, pkt[1].id % 256>> \o pkt[1].data
    /\ (pktStage # "called" /\ pktOp.op = "new" /\ Len(pktOp.raw) >= 2) =>
          /\ pkt[1].id = 256 * pktOp.raw[1] + pktOp.raw[2]
          /\ pkt[1].data = SubSeq(pktOp.raw, 3, Len(pktOp.raw))
    /\ (pktStage # "called" /\ pktOp.op = "fromID" /\ pktOp.id \in 0..65535) =>
          /\ pkt[1].id = pktOp.id
          /\ pkt[1].data = pktOp.data
    /\ (pktStage = "rebuilt" /\ Len(pktRaw[1]) >= 2) =>
          /\ pktBack[1].id = 256 * pktRaw[1][1] + pktRaw[1][2]
          /\ pktBack[1].data = SubSeq(pktRaw[1], 3, Len(pktRaw[1]))

\* the identifier 0x1234 with a payload of three bytes has been serialised
C19_Witness ==
    /\ pktStage = "raw"
    /\ pktOp.op = "fromID"
    /\ pktOp.id = 4660
    /\ pkt = <<[id |-> 4660, data |-> <<23, 0, 255>>]>>
    /\ pktRaw = <<<<18, 52, 23, 0, 255>>>>

\* C20: a raw buffer of fewer than 2 bytes is refused. After new Packet(b) with b of
\* length 0 or 1 no Packet exists and the failure has been reported to the caller.
C20_ShortRawFails ==
    (pktStage # "called" /\ pktOp.op = "new" /\ Len(pktOp.raw) < 2) =>
        /\ pkt = <<>>
        /\ pktThrown # "none"

\* C21: an identifier outside 0..65535 is refused. After Packet.fromID(id, p) with such
\* an id no Packet exists and the failure has been reported to the caller; in particular
\* no Packet exists whose identifier differs from the id passed in.
C21_FromIDRejectsBadId ==
    (pktStage # "called" /\ pktOp.op = "fromID" /\ pktOp.id \notin 0..65535) =>
        /\ pkt = <<>>
        /\ pktThrown # "none"
        /\ \A i \in 1..Len(pkt) : pkt[i].id = pktOp.id

IsClientPacket(e) == e.layer = "client" /\ e.type = "packet"

\* the Packets of the Packet events of the local DumbClient, in order
DeliveredPackets ==
    LET evs == SelectSeq(emitLog, IsClientPacket)
    IN  [i \in 1..Len(evs) |-> evs[i].data]

\* C22: end to end. The Packets delivered by the local DumbClient are, in order, the
\* Packets the remote end passed to DumbClient.send, each with its id and its payload:
\* never more than were sent, never in another order, and all of them, each once, when
\* the transport has delivered every byte; whatever the chunks of the transport.
C22_EndToEnd ==
    /\ Len(DeliveredPackets) <= Len(clientSent)
    /\ \A i \in 1..Len(DeliveredPackets) :
        /\ DeliveredPackets[i].id = clientSent[i].id
        /\ DeliveredPackets[i].data = clientSent[i].data
    /\ wire = <<>> => Len(DeliveredPackets) = Len(clientSent)

\* C23: the Raw algorithm is the identity in both directions. Every call of encode and
\* every call of decode returns a Buffer equal to its argument, so decoding what encode
\* returned for x gives x again.
C23_RawIsIdentity ==
    /\ \A i \in 1..Len(algResults) : algResults[i].result = algResults[i].arg
    /\ \A i, j \in 1..Len(algResults) :
        (/\ i < j
         /\ algResults[i].fn = "encode" /\ algResults[i].arg = algX
         /\ algResults[j].fn = "decode" /\ algResults[j].arg = algResults[i].result)
        => algResults[j].result = algX

\* a Buffer of five bytes that holds control values has been encoded and the result
\* decoded
C23_Witness ==
    /\ Len(algX) = 5
    /\ {EndOfPacket, ReadReset, 255} \subseteq Range(algX)
    /\ Len(algResults) = 2
    /\ algResults[1].fn = "encode" /\ algResults[1].arg = algX
    /\ algResults[2].fn = "decode" /\ algResults[2].arg = algResults[1].result
    /\ algResults[2].result = algX

\* the call of algorithm.decode made in this step has thrown: no Packet event of the
\* Shell came of it
DecodeFailed ==
    /\ Len(decodeCalls') = Len(decodeCalls) + 1
    /\ Cardinality(LogIndices("shell", "packet")') = Cardinality(LogIndices("shell", "packet"))

\* C24: a failure of algorithm.decode is surfaced and the packet is not tried again.
\* The step in which decode throws ends the feed call with that error and emits no
\* event of the Shell or the DumbClient; and no completed packet of the stream is handed
\* to the Shell, and so to algorithm.decode, a second time: the Packet events of the
\* Stream all stand for different EndOfPacket bytes of the stream.
C24_DecodeFailureSurfaced ==
    /\ [](\A i, j \in 1..Len(events) :
            (i < j /\ IsPacket(events[i]) /\ IsPacket(events[j]))
            => eventPos[i] # eventPos[j])
    /\ [][DecodeFailed => /\ thrown' = "decode"
                          /\ pc' = "idle"
                          /\ emitLog' = emitLog]_vars

\* C28: the packet accumulator only grows via fully consumed reads. Whenever control is
\* outside the decoder (an event is with its listeners, or feed has returned or raised),
\* the accumulator holds the data of the Read events since the last Packet or Reset
\* event, the read sequence of each of them has already left the accumulation buffer,
\* and no two of them stand for the same read sequence of the stream.
C28_AccumulatorFromConsumedReads ==
    pc # "handle" =>
        LET hi == IF pc = "packet" THEN Len(events) - 1 ELSE Len(events)
            lo == LastBoundary(events, hi + 1) + 1
        IN  /\ packet = ReadData(events, lo, hi)
            /\ \A i \in lo..hi : eventPos[i] < offset
            /\ \A i, j \in lo..hi : i < j => eventPos[i] # eventPos[j]

FatalErrors == {"unknown", "notImplemented"}

\* a feed call has raised one of the two errors of the decoder
HasFailed == \E k \in 1..Len(errors) : errors[k] \in FatalErrors

\* C27: a fatal decode error ends the progress of the decoder. Once a feed call has
\* raised the unknown-control-character or the not-implemented error, the last feed call
\* has always raised that same error, every later feed call raises it again, and no
\* event is emitted any more: the event log and the packet accumulator stay as they
\* were, whatever the remote end writes afterwards.
C27_FatalErrorEndsProgress ==
    /\ [](HasFailed => /\ errors[1] \in FatalErrors
                       /\ thrown = errors[1]
                       /\ \A k \in 1..Len(errors) : errors[k] = errors[1])
    /\ [][HasFailed => /\ events' = events
                       /\ eventPos' = eventPos
                       /\ packet' = packet
                       /\ packetSize' = packetSize
                       /\ (fed' # fed => (/\ thrown' = errors[1]
                                          /\ errors' = Append(errors, errors[1])))]_vars

\* the not-implemented error was raised after some event, and again by a later feed call
\* that brought a ReadReset
C27_Witness ==
    /\ Len(errors) >= 2
    /\ errors[1] = "notImplemented"
    /\ Len(events) > 0
    /\ bufferSize >= 2
    /\ buffer[1] = ReadGB
    /\ buffer[bufferSize] = ReadReset
    /\ wire = <<>>

\* C25: an error of a write reaches every caller. When the socket reports an error for
\* a write, the Promise of the Stream.write / endPacket / writePacket / readReset,
\* Shell.send or DumbClient.send call that made it is rejected with that error, and a
\* Promise that has settled stays as it settled: it never turns into a success.
C25_WriteErrorPropagates ==
    /\ [](\A i \in 1..Len(settled) :
            (settled[i].call \in WriteCalls /\ settled[i].reported # "none")
            => settled[i].outcome = Rejected(settled[i].reported))
    /\ [][IsPrefix(settled, settled')]_vars

\* a DumbClient.send, a Shell.send and a Stream.writePacket have all failed
C25_Witness ==
    /\ Len(settled) = 3
    /\ {settled[i].call : i \in 1..3} = {"DumbClient.send", "Shell.send", "Stream.writePacket"}
    /\ \A i \in 1..3 : settled[i].outcome = Rejected("EPIPE")

\* C26: a failure of the shutdown reaches every caller. When the socket reports an
\* error for its end, the Promise of the Stream.close, Shell.close or DumbClient.close
\* call that made it is rejected with that error and is never fulfilled.
C26_CloseErrorPropagates ==
    \A i \in 1..Len(settled) :
        (settled[i].call \in CloseCalls /\ settled[i].reported # "none")
        => settled[i].outcome = Rejected(settled[i].reported)

\* bytes the feed call in progress still has to interpret: those in the accumulation
\* buffer and those the ReadReset case has set aside to feed again
BytesToInterpret ==
    bufferSize
    + (IF stack # <<>> /\ stack[Len(stack)].kind = "resetCase"
       THEN Len(stack[Len(stack)].postReset) ELSE 0)

\* a measure of the work left in the feed call in progress: three per byte still to
\* interpret, the calls that wait for control to come back (four for a pending
\* feed(postReset), one for any other), and two when _handleNewData is about to run
WorkLeft ==
    3 * BytesToInterpret
    + Cardinality({i \in 1..Len(stack) : stack[i].kind = "resetCase"}) * 3
    + Len(stack)
    + (IF pc = "handle" THEN 2 ELSE 0)

\* C29: feed terminates. Every step inside a feed call makes the work left smaller (a
\* run of _handleNewData removes bytes from the accumulation buffer, raises, stops to
\* wait, or hands an event to its listeners, after which the bytes are removed), the
\* work left is never negative, a run of _handleNewData that neither raises nor stops
\* nor emits has removed at least one byte, and every feed call that was started comes
\* to its end, the re-feed of the bytes after a ReadReset included.
C29_FeedTerminates ==
    /\ [](WorkLeft >= 0)
    /\ [][pc # "idle" => WorkLeft' < WorkLeft]_vars
    /\ [][(pc = "handle" /\ pc' = "handle" /\ Len(stack') = Len(stack))
            => bufferSize' < bufferSize]_vars
    /\ [][(pc \in {"read", "packet"} /\ thrown' = "none") => bufferSize' < bufferSize]_vars
    /\ (pc # "idle") ~> (pc = "idle")

\* a feed call has ended that met a ReadReset with a read and an EndOfPacket behind it
\* in the same chunk
C29_Witness ==
    /\ pc = "idle"
    /\ thrown = "none"
    /\ errors = <<>>
    /\ wire = <<>>
    /\ fed = <<ReadReset, ReadByte, 65, EndOfPacket>>
    /\ Len(events) = 3
    /\ Cardinality(LogIndices("client", "packet")) = 1

\* C30: nothing that can be interpreted is left behind. Whenever feed has returned
\* without error, the accumulation buffer is empty or starts with a read sequence that
\* still lacks bytes.
C30_NothingLeftUninterpreted ==
    (pc = "idle" /\ thrown = "none") => (buffer = <<>> \/ LacksBytes(buffer))

\* feed has returned after some events with a ReadBytes read at the head of the buffer
\* of which the count byte and one byte of data have arrived
C30_Witness ==
    /\ pc = "idle"
    /\ thrown = "none"
    /\ Len(events) >= 2
    /\ buffer = <<ReadBytes, 0, 23>>

RECURSIVE DataPortions(_, _)
DataPortions(chunks, input) ==
    IF chunks = <<>> THEN <<>>
    ELSE SubSeq(input, Head(chunks).from + 1, Head(chunks).to)
         \o DataPortions(Tail(chunks), input)

\* C32: encode terminates for every input. Every iteration of its loop takes at least 1
\* and at most `remaining` bytes, so `remaining` goes down with every iteration and is
\* never negative; the loop ends with `remaining` at exactly 0, and encode returns. The
\* data portions of the chunks pushed, taken in order, lie one after the other in the
\* input from its first byte to its last, so concatenated they are the input.
C32_EncodeTerminates ==
    /\ [](encRemaining \in 0..encSize)
    /\ [][(encResults' # encResults) =>
            /\ encRemaining' < encRemaining
            /\ (encRemaining - encRemaining') \in 1..encRemaining
            /\ PushedChunk.from = encSize - encRemaining
            /\ PushedChunk.to - PushedChunk.from = encRemaining - encRemaining'
            /\ encRemaining' >= 0]_vars
    /\ [](encReturned =>
            /\ encRemaining = 0
            /\ \A i \in 1..Len(encResults) :
                  encResults[i].from = (IF i = 1 THEN 0 ELSE encResults[i - 1].to)
            /\ (encSize > 0) => (encResults[Len(encResults)].to = encSize)
            /\ (encSize = 0) => (encResults = <<>>)
            /\ (encSize <= MaxSmallSize) =>
                  (DataPortions(encResults, Pattern(encSize)) = Pattern(encSize)))
    /\ <>encReturned

\* an input of 1030 bytes was encoded in four iterations: the largest ReadBytes chunk,
\* a ReadBytes chunk of one unit and two ReadByte chunks
C32_Witness ==
    /\ encReturned
    /\ encSize = 1030
    /\ encRemaining = 0
    /\ Len(encResults) = 4
    /\ encResults[1].to = 1024
    /\ encResults[2].to = 1028
    /\ encResults[4].to = 1030

\* indices of the Read events among the events emitted
ReadIndices == {k \in 1..Len(events) : IsRead(events[k])}

\* bytes of one unit of a sized read
UnitOf(controlCharacter) ==
    IF controlCharacter = ReadBytes THEN 4
    ELSE IF controlCharacter = ReadKB THEN 4096 ELSE 4194304

\* C33: each completed read emits exactly one Read event. The reads that are complete
\* in the bytes fed so far and the Read events emitted correspond one to one. The event
\* of a ReadByte carries (ReadByte, 1, the data byte as a number); the event of a
\* ReadBytes, ReadKB or ReadMB carries the control character, the count byte as it is on
\* the wire (not count + 1) and a Buffer of exactly (count + 1) * unit bytes, the ones
\* that follow the count byte (unit 4, 4096, 4194304).
C33_ReadEventArguments ==
    LET reads == {o \in Range(ControlOffsets(fed)) :
                    fed[o + 1] \in {ReadByte, ReadBytes, ReadKB, ReadMB}}
    IN  /\ Cardinality(ReadIndices) = Cardinality(reads)
        /\ {eventPos[k] : k \in ReadIndices} = reads
        /\ \A k \in ReadIndices :
              LET o == eventPos[k]
                  c == fed[o + 1]
                  e == events[k]
              IN  IF c = ReadByte
                  THEN e = ReadEvent(ReadByte, 1, <<fed[o + 2]>>, TRUE)
                  ELSE /\ e.controlCharacter = c
                       /\ e.number = fed[o + 2]
                       /\ ~e.asNumber
                       /\ Len(e.data) = (fed[o + 2] + 1) * UnitOf(c)
                       /\ e.data = SubSeq(fed, o + 3, o + 2 + (fed[o + 2] + 1) * UnitOf(c))

\* a ReadBytes read with the largest count byte, a ReadBytes read with count byte 0 and
\* a ReadByte read have been completed, and the EndOfPacket has not arrived yet
C33_Witness ==
    /\ Len(wire) = 1
    /\ Len(events) = 3
    /\ events[1].controlCharacter = ReadBytes /\ events[1].number = 255
    /\ Len(events[1].data) = 1024
    /\ events[2].controlCharacter = ReadBytes /\ events[2].number = 0
    /\ Len(events[2].data) = 4
    /\ events[3] = ReadEvent(ReadByte, 1, <<Pattern(1029)[1029]>>, TRUE)

\* C34: writePacket(d) makes one write to the socket, and the bytes of that write are
\* the bytes of the two writes that write(d) followed by endPacket() make: encode(d)
\* followed by the single byte 0x17.
C34_WritePacketIsWriteThenEnd ==
    /\ \A i \in 1..Len(streamCalls) :
         (streamCalls[i].op = "writePacket") =>
            /\ Len(streamCalls[i].writes) = 1
            /\ streamCalls[i].writes[1] = encode(streamCalls[i].data) \o <<23>>
    /\ \A i \in 1..Len(streamCalls) : \A j \in 1..(Len(streamCalls) - 1) :
         (/\ streamCalls[i].op = "writePacket"
          /\ streamCalls[j].op = "write"
          /\ streamCalls[j].data = streamCalls[i].data
          /\ streamCalls[j + 1].op = "endPacket") =>
            /\ Len(streamCalls[j].writes) = 1
            /\ Len(streamCalls[j + 1].writes) = 1
            /\ Concat(streamCalls[i].writes)
                 = streamCalls[j].writes[1] \o streamCalls[j + 1].writes[1]

\* write(d) and endPacket() were called, then writePacket(d), for a payload of two bytes
C34_Witness ==
    /\ Len(streamCalls) = 3
    /\ streamCalls[1].op = "write" /\ streamCalls[1].data = <<23, 65>>
    /\ streamCalls[2].op = "endPacket"
    /\ streamCalls[3].op = "writePacket" /\ streamCalls[3].data = <<23, 65>>
    /\ streamCalls[3].writes = <<<<ReadByte, 23, ReadByte, 65, EndOfPacket>>>>

\* C35: readReset() makes one write of the single byte 0x18. Once the peer decoder has
\* received all the bytes of write(d1), readReset(), writePacket(d2), called in that
\* order, it has emitted exactly one Reset event and exactly one Packet event, whose
\* payload is d2: no byte of d1 is in a packet.
C35_ResetThenPacket ==
    /\ \A i \in 1..Len(streamCalls) :
         (streamCalls[i].op = "readReset") => (streamCalls[i].writes = <<<<24>>>>)
    /\ (/\ Len(streamCalls) = 3
        /\ streamCalls[1].op = "write"
        /\ streamCalls[2].op = "readReset"
        /\ streamCalls[3].op = "writePacket"
        /\ wire = <<>>) =>
            /\ errors = <<>>
            /\ Len(ResetEvents) = 1
            /\ PacketEvents = <<PacketEvent(Len(streamCalls[3].data), streamCalls[3].data)>>

\* the peer has received write(<<23, 65>>), readReset(), writePacket(<<24>>) in four
\* chunks or more and has emitted two Read events, a Reset event, a Read event and a
\* Packet event
C35_Witness ==
    /\ Len(streamCalls) = 3
    /\ streamCalls[1].op = "write" /\ streamCalls[1].data = <<23, 65>>
    /\ streamCalls[2].op = "readReset"
    /\ streamCalls[3].op = "writePacket" /\ streamCalls[3].data = <<24>>
    /\ wire = <<>>
    /\ fed = <<ReadByte, 23, ReadByte, 65, ReadReset, ReadByte, 24, EndOfPacket>>
    /\ Len(events) = 5
    /\ events[3] = ResetEvent
    /\ events[5] = PacketEvent(1, <<24>>)

\* C36: frames of outstanding Shell.send calls are never interleaved on the wire. However
\* the calls, the callbacks of the socket and the deliveries to the peer are
\* interleaved, the peer decoder raises no error and emits no Reset; the k-th Packet
\* event it emits carries the payload of the k-th send, so there is never more than one
\* packet per send, and once all bytes are delivered there is exactly one packet per
\* send.
C36_SendsNotInterleaved ==
    /\ errors = <<>>
    /\ ResetEvents = <<>>
    /\ Len(PacketEvents) <= Len(senders)
    /\ \A k \in 1..Len(PacketEvents) :
         PacketEvents[k] = PacketEvent(Len(senders[k].data), senders[k].data)
    /\ (wire = <<>> /\ \A i \in 1..Len(senders) : senders[i].todo = <<>>)
         => (Len(PacketEvents) = Len(senders))

\* three sends were outstanding at the same time, and the peer has received the three
\* packets before the socket has called any of them back
C36_Witness ==
    /\ Len(senders) = 3
    /\ \A i \in 1..3 : senders[i].pending
    /\ senders[1].data = <<255, 255, 72, 23, 24>>
    /\ senders[2].data = <<>>
    /\ senders[3].data = <<255, 255, 72, 23, 24>>
    /\ wire = <<>>
    /\ Len(PacketEvents) = 3

\* a feed call has raised the packet-size error
HasOverflowed == \E k \in 1..Len(errors) : errors[k] = "overflow"

\* a feed call that raises the packet-size error leaves the read that went too far at
\* the head of the buffer, has emitted no event for it and has emptied the accumulator
OverflowRaisedBeforeRead ==
    [][(thrown' = "overflow" /\ fed' # fed) =>
         /\ \A k \in 1..Len(events') : eventPos'[k] # offset'
         /\ buffer'[1] \in {ReadByte, ReadBytes, ReadKB, ReadMB}
         /\ packet' = <<>>
         /\ packetSize' = 0]_vars

\* C37: overflow guard. A feed call in which a read brings the size of the packet
\* accumulator to the ceiling or above raises the packet-size error and emits no Read
\* event for that read, and the failure is fatal: no feed call after it emits a Read or
\* a Packet event.
C37_OverflowIsFatal ==
    /\ OverflowRaisedBeforeRead
    /\ [][HasOverflowed => (events' = events)]_vars

\* C38: every Packet delivered by the DumbClient carries an id that is an integer in
\* 0..65535, whatever well-formed frames are received, also when the payload of a packet
\* has fewer than 2 bytes (a bare EndOfPacket completes an empty packet).
C38_DeliveredIdInRange ==
    \A i \in 1..Len(DeliveredPackets) : DeliveredPackets[i].id \in 0..65535

\* payload bytes that encode puts into the chunk chosen by _bestControlCharacter
CarriedBytes(r) ==
    IF r.controlCharacter = ReadByte THEN 1 ELSE ChunkByteSize(r.controlCharacter, r.number)

\* C39: for every size >= 1 the remainder returned by _bestControlCharacter(size) is the
\* size minus the payload bytes that the chosen chunk carries (1 for ReadByte,
\* (number + 1) * unit for ReadBytes, ReadKB and ReadMB, also when number is capped at
\* 255), which is the value of `remaining` in encode after that chunk; and
\* _bestControlCharacter(0) returns false.
C39_RemainderIsWhatIsLeft ==
    \A i \in 1..Len(best) :
        LET size == best[i].size
            r == best[i].result
        IN  /\ (size >= 1) => (r # NoControlCharacter /\ r.remainder = size - CarriedBytes(r))
            /\ (size = 0) => (r = NoControlCharacter)

====
